---- MODULE Spec2Model ----
(***************************************************************************)
(* A model of cac_configmgr:                                                *)
(*   core/resolver.py  TemplateResolver   (inheritance chain)               *)
(*   core/merger.py    merge_resources, deep_merge, merge_list_by_id,       *)
(*                     apply_ordering_directives                            *)
(*   core/interpolator.py  Interpolator                                     *)
(*   core/engine.py    ResolutionEngine.resolve, ResolvedConfiguration      *)
(*   core/validator.py ConsistencyValidator                                 *)
(*   core/logpoint_dependencies.py  LogPointDependencyValidator             *)
(*   providers/director.py  DirectorProvider                                *)
(* Python values are tagged records [t |-> type, v |-> payload]; a raised   *)
(* exception travels through the pure operators as a value of type "exc".   *)
(***************************************************************************)
EXTENDS Integers, Sequences, FiniteSets, TLC

VARIABLES
    mode,       \* which part of the program this behaviour exercises
    heap,       \* the dicts and lists the merger is handed and those it creates
    cache,      \* TemplateResolver._cache: reference -> template
    peer,       \* the _cache of the resolver of a second ResolutionEngine
    disk,       \* references whose directory exists under templates_dir
    instance,   \* the TopologyInstance handed to resolve; the DirectorProvider
    pc,         \* position inside resolve; whether the call returned or raised
    current,    \* resolver local: current
    seen,       \* resolver local: seen
    depth,      \* resolver local: depth
    chain,      \* resolver local: chain (leaf first until reversed)
    variables,  \* engine local: variables
    merged,     \* engine local: merged_resources
    resolved,   \* the ResolvedConfiguration returned, or NoValue
    err,        \* the exception that left resolve, or NoValue
    log,        \* the phases of resolve, or the calls made, so far, in order
    args,       \* arguments of the call under study; the dependency validator
    ret         \* its result, or NoValue before the call

vars == <<mode, heap, cache, peer, disk, instance, pc, current, seen, depth, chain,
          variables, merged, resolved, err, log, args, ret>>

engineVars == <<cache, peer, disk, instance, pc, current, seen, depth, chain,
                variables, merged, resolved, err, log>>

(***************************************************************************)
(* Python values                                                            *)
(***************************************************************************)
None == [t |-> "none"]
NoValue == [t |-> "novalue"]
PyInt(n) == [t |-> "int", v |-> n]
PyStr(s) == [t |-> "str", v |-> s]
PyBool(b) == [t |-> "bool", v |-> b]
PyList(s) == [t |-> "list", v |-> s]
PyDict(f) == [t |-> "dict", v |-> f]
Exc(name) == [t |-> "exc", v |-> name]
IsExc(x) == x.t = "exc"
EmptyDict == PyDict(<<>>)

\* bool(x)
Truthy(x) ==
    CASE x.t = "none" -> FALSE
      [] x.t = "int"  -> x.v # 0
      [] x.t = "str"  -> x.v # ""
      [] x.t = "bool" -> x.v
      [] x.t = "list" -> Len(x.v) > 0
      [] x.t = "dict" -> DOMAIN x.v # {}
      [] OTHER -> TRUE

\* d.get(k)
Get(d, k) == IF k \in DOMAIN d.v THEN d.v[k] ELSE None
Has(d, k) == k \in DOMAIN d.v

\* list helpers (0-based positions, as in Python)
Contains(s, x) == \E i \in 1..Len(s) : s[i] = x
IndexOf(s, x) == (CHOOSE i \in 1..Len(s) : s[i] = x /\ \A j \in 1..(i-1) : s[j] # x) - 1
RemoveAt(s, i) == SubSeq(s, 1, i) \o SubSeq(s, i + 2, Len(s))
Remove(s, x) == RemoveAt(s, IndexOf(s, x))
Min(a, b) == IF a < b THEN a ELSE b
Max(a, b) == IF a > b THEN a ELSE b
\* list.insert(i, x): i beyond the end appends
Insert(s, i, x) ==
    LET p == Min(Max(i, 0), Len(s))
    IN SubSeq(s, 1, p) \o <<x>> \o SubSeq(s, p + 1, Len(s))
Reverse(s) == [i \in 1..Len(s) |-> s[Len(s) + 1 - i]]

(***************************************************************************)
(* An insertion-ordered dict (the dicts whose order the code reads back):   *)
(* a sequence of [k, v] pairs with distinct keys.                           *)
(***************************************************************************)
ODHas(d, k) == \E i \in 1..Len(d) : d[i].k = k
ODGet(d, k) == d[CHOOSE i \in 1..Len(d) : d[i].k = k].v
ODSet(d, k, val) ==
    IF ODHas(d, k)
    THEN [i \in 1..Len(d) |-> IF d[i].k = k THEN [k |-> k, v |-> val] ELSE d[i]]
    ELSE Append(d, [k |-> k, v |-> val])
\* a pop that removes nothing
ODPop_keeps(d, k) == d
ODPop(d, k) == SelectSeq(d, LAMBDA e : e.k # k)
ODKeys(d) == [i \in 1..Len(d) |-> d[i].k]
ODValues(d) == [i \in 1..Len(d) |-> d[i].v]

(***************************************************************************)
(* core/merger.py                                                           *)
(***************************************************************************)
Directive(id, type, value) == [id |-> id, type |-> type, value |-> value]

directive_priority(d) ==
    CASE d.type = "_position" -> 1
      [] d.type = "_first" -> 2
      [] d.type = "_last" -> 2
      [] d.type = "_before" -> 3
      [] d.type = "_after" -> 3
      [] OTHER -> 99

\* sorted(directives, key=directive_priority): a stable sort
sorted_directives(directives) ==
    SelectSeq(directives, LAMBDA d : directive_priority(d) = 1)
    \o SelectSeq(directives, LAMBDA d : directive_priority(d) = 2)
    \o SelectSeq(directives, LAMBDA d : directive_priority(d) = 3)
    \o SelectSeq(directives, LAMBDA d : directive_priority(d) = 99)

\* the item put back at the end of the list, wherever the referenced id is
move_next_to_end(rest, item_id, value, offset) == PyList(Append(rest, item_id))

\* result.remove(item_id); result.insert(result.index(value) + offset, item_id)
move_next_to(rest, item_id, value, offset) ==
    IF Contains(rest, value)
    THEN PyList(Insert(rest, IndexOf(rest, value) + offset, item_id))
    ELSE Exc("ValueError")    \* rest.index(value): value was the item itself

\* result.remove(item_id); result.insert(min(max(1, value), len(result) + 1) - 1, item_id)
move_to_position(rest, item_id, value) ==
    PyList(Insert(rest, Min(Max(1, value), Len(rest) + 1) - 1, item_id))

\* the iteration without the test that the referenced id is in the list
apply_directive_unguarded(result, d) ==
    IF ~Contains(result, d.id) THEN PyList(result)
    ELSE CASE d.type = "_position" -> move_to_position(Remove(result, d.id), d.id, d.value.v)
           [] d.type = "_first" -> PyList(<<d.id>> \o Remove(result, d.id))
           [] d.type = "_last" -> PyList(Append(Remove(result, d.id), d.id))
           [] d.type = "_after" -> move_next_to(Remove(result, d.id), d.id, d.value, 1)
           [] d.type = "_before" -> move_next_to(Remove(result, d.id), d.id, d.value, 0)
           [] OTHER -> PyList(result)

\* one iteration of the loop of apply_ordering_directives; the order is a
\* plain sequence of ids, the outcome a PyList of ids or the exception raised
apply_directive(result, d) ==
    IF ~Contains(result, d.id) THEN PyList(result)
    ELSE CASE d.type = "_position" -> move_to_position(Remove(result, d.id), d.id, d.value.v)
           [] d.type = "_first" -> PyList(<<d.id>> \o Remove(result, d.id))
           [] d.type = "_last" -> PyList(Append(Remove(result, d.id), d.id))
           [] d.type = "_after" ->
                IF Contains(result, d.value)
                THEN move_next_to(Remove(result, d.id), d.id, d.value, 1)
                ELSE PyList(result)
           [] d.type = "_before" ->
                IF Contains(result, d.value)
                THEN move_next_to(Remove(result, d.id), d.id, d.value, 0)
                ELSE PyList(result)
           [] OTHER -> PyList(result)

\* the loop of apply_ordering_directives from directive i on; an exception ends it
RECURSIVE apply_sorted(_, _, _)
apply_sorted(result, ds, i) ==
    IF i > Len(ds) \/ IsExc(result) THEN result
    ELSE apply_sorted(apply_directive(result.v, ds[i]), ds, i + 1)

\* apply_ordering_directives(item_ids, directives): a PyList of ids, or the exception
apply_ordering_directives(item_ids, directives) ==
    apply_sorted(PyList(item_ids), sorted_directives(directives), 1)

\* a dict built from the values f, or the exception one of them is
dict_or_exc(f) ==
    IF \E k \in DOMAIN f : IsExc(f[k])
    THEN CHOOSE e \in {f[k] : k \in DOMAIN f} : IsExc(e)
    ELSE PyDict(f)

\* a list built from the values s, or the first exception among them
list_or_exc(s) ==
    IF \E i \in 1..Len(s) : IsExc(s[i])
    THEN s[CHOOSE i \in 1..Len(s) : IsExc(s[i]) /\ \A j \in 1..(i-1) : ~IsExc(s[j])]
    ELSE PyList(s)

RECURSIVE deep_merge(_, _), merge_list_by_id(_, _), fold_overrides(_, _, _)

\* the value of key k when a null of the override is taken like any other value
merged_value_null_wins(base, override, k) ==
    IF k \notin DOMAIN override.v THEN base.v[k] ELSE override.v[k]

\* the value deep_merge gives key k (merger.py 100-119)
merged_value(base, override, k) ==
    IF k \notin DOMAIN override.v \/ override.v[k] = None THEN base.v[k]
    ELSE IF k \notin DOMAIN base.v THEN override.v[k]
    ELSE IF override.v[k].t = "list" /\ base.v[k].t = "list"
         THEN merge_list_by_id(base.v[k], override.v[k])
    ELSE IF override.v[k].t = "dict" /\ base.v[k].t = "dict"
         THEN deep_merge(base.v[k], override.v[k])
    ELSE override.v[k]

\* deep_merge(base, override), both dicts
deep_merge(base, override) ==
    dict_or_exc([k \in DOMAIN base.v \cup {j \in DOMAIN override.v : override.v[j] # None}
                   |-> merged_value(base, override, k)])

\* the directives one override element contributes (merger.py 171-181)
item_directives(item, item_id) ==
    IF ~Truthy(item_id) THEN <<>>
    ELSE (IF Truthy(Get(item, "_after"))
          THEN <<Directive(item_id, "_after", item.v["_after"])>> ELSE <<>>)
      \o (IF Truthy(Get(item, "_before"))
          THEN <<Directive(item_id, "_before", item.v["_before"])>> ELSE <<>>)
      \o (IF Get(item, "_position") # None
          THEN <<Directive(item_id, "_position", item.v["_position"])>> ELSE <<>>)
      \o (IF Truthy(Get(item, "_first"))
          THEN <<Directive(item_id, "_first", PyBool(TRUE))>> ELSE <<>>)
      \o (IF Truthy(Get(item, "_last"))
          THEN <<Directive(item_id, "_last", PyBool(TRUE))>> ELSE <<>>)

\* result_by_id[item_id] = merged_elem, unless deep_merge raised
store_merged(st, item_id, merged_elem) ==
    IF IsExc(merged_elem) THEN [st EXCEPT !.raised = merged_elem]
    ELSE [st EXCEPT !.result_by_id = ODSet(@, item_id, merged_elem)]

\* merger.py 183-198, for a dict element, its directives already collected
merge_or_delete(st, item, item_id, action) ==
    IF Truthy(item_id) /\ ODHas(st.base_by_id, item_id)
    THEN IF action = PyStr("delete")
         THEN [st EXCEPT !.result_by_id = ODPop(@, item_id)]
         ELSE store_merged(st, item_id, deep_merge(ODGet(st.base_by_id, item_id), item))
    ELSE IF action # PyStr("delete")
         THEN IF Truthy(item_id)
              THEN [st EXCEPT !.result_by_id = ODSet(@, item_id, item)]
              ELSE [st EXCEPT !.result_without_id = Append(@, item)]
         ELSE st

\* the body of the loop over override_list (merger.py 161-198); st holds
\* base_by_id, result_by_id, result_without_id and ordering_directives
override_step(st, item) ==
    IF item.t # "dict"
    THEN [st EXCEPT !.result_without_id = Append(@, item)]
    ELSE merge_or_delete(
            [st EXCEPT !.ordering_directives = @ \o item_directives(item, Get(item, "_id"))],
            item, Get(item, "_id"), Get(item, "_action"))

fold_overrides(st, override_list, i) ==
    IF i > Len(override_list) \/ IsExc(st.raised) THEN st
    ELSE fold_overrides(override_step(st, override_list[i]), override_list, i + 1)

\* every base element taken as one without _id
index_item_anonymous(st, item) ==
    [st EXCEPT !.result_without_id = Append(@, item)]

\* lines 144-151: base elements with an _id key, indexed by it, and the others
index_item(st, item) ==
    IF item.t = "dict" /\ Has(item, "_id")
    THEN [st EXCEPT !.base_by_id = ODSet(@, item.v["_id"], item)]
    ELSE [st EXCEPT !.result_without_id = Append(@, item)]

RECURSIVE index_base(_, _, _)
index_base(st, base_list, i) ==
    IF i > Len(base_list) THEN st
    ELSE index_base(index_item(st, base_list[i]), base_list, i + 1)

\* lines 155-156: result_by_id = dict(base_by_id)
copy_base(st) == [st EXCEPT !.result_by_id = st.base_by_id]

\* the elements without _id put in front of the others
reconstruct_anonymous_first(st, final_order) ==
    IF IsExc(final_order) THEN final_order
    ELSE PyList(st.result_without_id
                \o [i \in 1..Len(final_order.v) |-> ODGet(st.result_by_id, final_order.v[i])])

\* lines 206-215: the elements in final order, then those without _id
reconstruct(st, final_order) ==
    IF IsExc(final_order) THEN final_order
    ELSE PyList([i \in 1..Len(final_order.v) |-> ODGet(st.result_by_id, final_order.v[i])]
                \o st.result_without_id)

\* lines 200-215
order_and_reconstruct(st) ==
    IF IsExc(st.raised) THEN st.raised
    ELSE reconstruct(st, apply_ordering_directives(ODKeys(st.result_by_id),
                                                   st.ordering_directives))

\* merge_list_by_id(base_list, override_list), both PyLists
merge_list_by_id(base_list, override_list) ==
    order_and_reconstruct(
        fold_overrides(
            copy_base(index_base([base_by_id |-> <<>>, result_by_id |-> <<>>,
                                  result_without_id |-> <<>>, ordering_directives |-> <<>>,
                                  raised |-> NoValue],
                                 base_list.v, 1)),
            override_list.v, 1))

\* _get_resource_name(resource)
get_resource_name(resource) ==
    IF Has(resource, "policy_name") THEN resource.v["policy_name"]
    ELSE IF Has(resource, "name") THEN resource.v["name"]
    ELSE None

\* lines 55-59: base resources with a truthy name, indexed by it
index_resource(result, r, name) ==
    IF Truthy(name) THEN ODSet(result, name, r) ELSE result

RECURSIVE index_resources(_, _, _)
index_resources(result, base_list, i) ==
    IF i > Len(base_list) THEN result
    ELSE index_resources(index_resource(result, base_list[i], get_resource_name(base_list[i])),
                         base_list, i + 1)

\* result[name] = deep_merge(...), unless deep_merge raised
store_resource(st, name, m) ==
    IF IsExc(m) THEN [st EXCEPT !.raised = m]
    ELSE [st EXCEPT !.result = ODSet(@, name, m)]

\* lines 61-76: the body of the loop over override_list; st holds result and the exception
resource_step(st, resource, name) ==
    IF name = None THEN [st EXCEPT !.raised = Exc("MergeError")]
    ELSE IF Get(resource, "action") = PyStr("delete") \/ Get(resource, "_action") = PyStr("delete")
         THEN [st EXCEPT !.result = ODPop(@, name)]
    ELSE IF ODHas(st.result, name)
         THEN store_resource(st, name, deep_merge(ODGet(st.result, name), resource))
    ELSE [st EXCEPT !.result = ODSet(@, name, resource)]

RECURSIVE fold_resources(_, _, _)
fold_resources(st, override_list, i) ==
    IF i > Len(override_list) \/ IsExc(st.raised) THEN st
    ELSE fold_resources(resource_step(st, override_list[i], get_resource_name(override_list[i])),
                        override_list, i + 1)

\* line 78: list(result.values()), unless the loop raised
resource_values(st) ==
    IF IsExc(st.raised) THEN st.raised ELSE PyList(ODValues(st.result))

\* merge_resources(base_list, override_list), both PyLists of dicts
merge_resources(base_list, override_list) ==
    resource_values(fold_resources([result |-> index_resources(<<>>, base_list.v, 1),
                                    raised |-> NoValue],
                                   override_list.v, 1))

(***************************************************************************)
(* core/interpolator.py                                                     *)
(* A str without a placeholder is PyStr(text).  A str holding placeholders  *)
(* is a value of type "tstr": the sequence of its parts, each a literal     *)
(* [lit |-> text] with no placeholder in it or a placeholder [var |-> name].*)
(***************************************************************************)
Lit(text) == [lit |-> text]
Var(name) == [var |-> name]
IsVar(part) == "var" \in DOMAIN part
PyTemplate(parts) == [t |-> "tstr", v |-> parts]

\* str(value), for the scalar values variables hold
PyStrOf(x) ==
    CASE x.t = "int" -> ToString(x.v)
      [] x.t = "bool" -> IF x.v THEN "True" ELSE "False"
      [] x.t = "str" -> x.v
      [] x.t = "none" -> "None"
      [] OTHER -> "<object>"

VariableNotFoundError(name, known) ==
    [t |-> "exc", v |-> "VariableNotFoundError", missing |-> name, available |-> known]

\* a variable that is not defined read as the empty string
get_variable_or_empty(vs, name) ==
    IF name \notin DOMAIN vs.v THEN PyStr("") ELSE vs.v[name]

\* Interpolator._get_variable
get_variable(vs, name) ==
    IF name \notin DOMAIN vs.v THEN VariableNotFoundError(name, DOMAIN vs.v)
    ELSE vs.v[name]

\* VARIABLE_PATTERN.sub(replace_var, obj): left to right, the first failure raises
\* acc is the text so far, or the exception raised
append_value(acc, value) ==
    IF IsExc(value) THEN value ELSE PyStr(acc.v \o PyStrOf(value))

RECURSIVE substitute(_, _, _, _)
substitute(vs, parts, i, acc) ==
    IF i > Len(parts) \/ IsExc(acc) THEN acc
    ELSE substitute(vs, parts, i + 1,
                    IF IsVar(parts[i]) THEN append_value(acc, get_variable(vs, parts[i].var))
                    ELSE PyStr(acc.v \o parts[i].lit))

\* every string with a placeholder substituted into, a sole placeholder too
interpolate_string_stringified(vs, obj) ==
    IF obj.t = "str" THEN obj ELSE substitute(vs, obj.v, 1, PyStr(""))

\* Interpolator._interpolate_string
interpolate_string(vs, obj) ==
    IF obj.t = "str" THEN obj
    ELSE IF Len(obj.v) = 1 /\ IsVar(obj.v[1]) THEN get_variable(vs, obj.v[1].var)
    ELSE substitute(vs, obj.v, 1, PyStr(""))

\* key.startswith("_"), over the keys the model uses
InternalKeys == {"_id", "_action", "_after", "_before", "_position", "_first", "_last"}

\* no field passed through
passed_through_never(key) == FALSE

\* line 78: key.startswith("_") and key != "_action"
passed_through(key) == key \in InternalKeys /\ key # "_action"

RECURSIVE interpolate(_, _)
\* Interpolator(vs).interpolate(obj)
interpolate(vs, obj) ==
    CASE obj.t = "dict" ->
            dict_or_exc([k \in DOMAIN obj.v |->
                           IF passed_through(k) THEN obj.v[k]
                           ELSE interpolate(vs, obj.v[k])])
      [] obj.t = "list" ->
            list_or_exc([i \in 1..Len(obj.v) |-> interpolate(vs, obj.v[i])])
      [] obj.t \in {"str", "tstr"} -> interpolate_string(vs, obj)
      [] OTHER -> obj

\* the variables of the base taking precedence
merge_variables_base_wins(base, override) ==
    PyDict([k \in DOMAIN base.v \cup DOMAIN override.v |->
              IF k \in DOMAIN base.v THEN base.v[k] ELSE override.v[k]])

\* merge_variables(base, override)
merge_variables(base, override) ==
    PyDict([k \in DOMAIN base.v \cup DOMAIN override.v |->
              IF k \in DOMAIN override.v THEN override.v[k] ELSE base.v[k]])

RECURSIVE collect_from(_, _, _)
collect_from(result, templates, i) ==
    IF i > Len(templates) THEN result
    ELSE collect_from(merge_variables(result, templates[i].spec.vars), templates, i + 1)

\* collect_variables_from_chain(chain)
collect_variables_from_chain(templates) == collect_from(EmptyDict, templates, 1)

(***************************************************************************)
(* models/: the pydantic models, each a value of type "model" holding every *)
(* declared field (an unset optional field holds its default).              *)
(***************************************************************************)
Model(cls, fields) == [t |-> "model", cls |-> cls, v |-> fields]

\* models/repos.py HiddenRepoPath
HiddenRepoPath(id, path, retention) ==
    Model("HiddenRepoPath",
          [id |-> id, path |-> path, retention |-> retention,
           after |-> None, before |-> None, position |-> None,
           first |-> PyBool(FALSE), last |-> PyBool(FALSE)])

\* models/repos.py Repo
Repo(name, hiddenrepopath, action) ==
    Model("Repo", [name |-> PyStr(name), hiddenrepopath |-> PyList(hiddenrepopath),
                   id |-> None, action |-> action])

\* models/template.py TemplateSpec
TemplateSpec(vs, repos) ==
    [vars |-> vs, repos |-> repos, routing_policies |-> <<>>, processing_policies |-> <<>>]

\* TemplateSpec.get_all_resources(): the kinds in the order the dict lists them
ResourceTypes == <<"repos", "routing_policies", "processing_policies">>
get_all_resources(spec) == [k \in {ResourceTypes[i] : i \in 1..Len(ResourceTypes)} |-> spec[k]]

RECURSIVE model_dump(_)
\* BaseModel.model_dump(by_alias=False, exclude_none=True): python field names,
\* fields holding None left out, nested models dumped
model_dump(m) ==
    CASE m.t = "model" ->
            PyDict([k \in {f \in DOMAIN m.v : m.v[f] # None} |-> model_dump(m.v[k])])
      [] m.t = "list" -> PyList([i \in 1..Len(m.v) |-> model_dump(m.v[i])])
      [] OTHER -> m

(***************************************************************************)
(* core/resolver.py                                                         *)
(* A reference is the sequence of the tokens of its text: the path, then,   *)
(* if versioned, "@" and the version.                                       *)
(***************************************************************************)
max_depth == 10

Ref(tokens) == [t |-> "ref", v |-> tokens]

\* extends.split("@")[0]
split_at(tokens) ==
    IF Contains(tokens, "@") THEN SubSeq(tokens, 1, IndexOf(tokens, "@")) ELSE tokens

\* TemplateResolver._get_template_id
get_template_id(template) == template.metadata.name

\* TemplateResolver._get_parent_ref
get_parent_ref(template) ==
    IF template.metadata.extends = None THEN None
    ELSE Ref(split_at(template.metadata.extends.v))

\* a load that never consults the cache
load_from_uncached(c, ref) ==
    IF ref.v \notin disk THEN Exc("TemplateNotFoundError")
    ELSE Exc("NotImplementedError")

\* TemplateResolver._load_template on a resolver whose _cache is c:
\* the template, or the exception raised
load_from(c, ref) ==
    IF ref.v \in DOMAIN c THEN c[ref.v]
    ELSE IF ref.v \notin disk THEN Exc("TemplateNotFoundError")
    ELSE Exc("NotImplementedError")

\* resolver.py 143: the directory is looked for only when the cache misses
probes(c, ref) == ref.v \notin DOMAIN c

\* self._load_template(ref) of the resolver of the engine under study
load_template(ref) == load_from(cache, ref)

\* models/template.py ConfigTemplate, TopologyInstance
ConfigTemplate(name, extends, spec) ==
    [t |-> "template", kind |-> "ConfigTemplate", metadata |-> [name |-> name, extends |-> extends], spec |-> spec]
TopologyInstance(name, extends, spec) ==
    [t |-> "template", kind |-> "TopologyInstance", metadata |-> [name |-> name, extends |-> extends], spec |-> spec]

(***************************************************************************)
(* The template stores and instances the engine is run on.  Every template  *)
(* names at most one parent, so what a leaf can reach is a path of L        *)
(* templates that ends at a root, at a reference that cannot be loaded, or  *)
(* at a reference back into the path.                                       *)
(***************************************************************************)
MaxChain == 12      \* templates on the path, the leaf not counted
MaxContent == 2     \* templates on the path when the templates carry resources

NodeName(i) == IF i = 0 THEN "leaf" ELSE "n" \o ToString(i)
PathOf(i) == <<"t" \o ToString(i)>>
\* where a parent reference leads: to node n of the path, to no parent at all
\* (a root), to a directory that does not exist, to one that is not cached
Target(to, n) == [to |-> to, n |-> n]
Tails(L) == (IF L = 0 THEN {} ELSE {Target("root", 0)})
            \cup {Target("missing", 0), Target("ondisk", 0)}
BackEdges(L) == {Target("node", k) : k \in 1..L}
Dups(L) == {<<0, 0>>} \cup {<<d, e>> \in (1..L) \X (0..L) : e < d}

Extends(target, versioned) ==
    IF target.to = "root" THEN None
    ELSE Ref((IF target.to = "node" THEN PathOf(target.n) ELSE <<target.to>>)
             \o (IF versioned THEN <<"@", "2.1.0">> ELSE <<>>))

\* the parent of node i on a path of L templates ending in tail
ParentOf(i, L, tail) == IF i < L THEN Target("node", i + 1) ELSE tail
NameOf(i, dup) == IF i = dup[1] THEN NodeName(dup[2]) ELSE NodeName(i)

EmptySpec == TemplateSpec(EmptyDict, <<>>)

Tier(id, path, retention) == HiddenRepoPath(PyStr(id), path, retention)
SpecSet ==
    { EmptySpec,
      TemplateSpec(EmptyDict, <<Repo("a", <<Tier("fast", PyStr("/opt"), PyInt(1))>>, None)>>),
      TemplateSpec(PyDict([v |-> PyInt(7)]),
                   <<Repo("a", <<Tier("fast", None, PyInt(2))>>, None)>>),
      TemplateSpec(EmptyDict, <<Repo("a", <<>>, None), Repo("a", <<>>, None)>>),
      TemplateSpec(EmptyDict, <<Repo("a", <<>>, PyStr("delete"))>>),
      TemplateSpec(EmptyDict,
                   <<Repo("b", <<Tier("fast", None, PyTemplate(<<Var("v")>>))>>, None)>>) }

StoreOf(L, tail, dup, versioned, specs) ==
    [r \in {PathOf(i) : i \in 1..L} |->
        LET i == CHOOSE j \in 1..L : PathOf(j) = r
        IN ConfigTemplate(NameOf(i, dup), Extends(ParentOf(i, L, tail), versioned), specs[i])]

InstanceOf(L, tail, versioned, specs) ==
    TopologyInstance(NodeName(0), Extends(ParentOf(0, L, tail), versioned), specs[0])

Idle ==
    /\ pc = "idle"
    /\ current = None
    /\ seen = {}
    /\ depth = 0
    /\ chain = <<>>
    /\ variables = NoValue
    /\ merged = NoValue
    /\ resolved = NoValue
    /\ err = NoValue
    /\ log = <<>>

\* a long path of templates that contribute nothing
InitTopology ==
    \E L \in 0..MaxChain : \E tail \in Tails(L) \cup BackEdges(L) :
    \E dup \in Dups(L) : \E versioned \in BOOLEAN :
        LET specs == [i \in 0..L |-> EmptySpec]
        IN /\ cache = StoreOf(L, tail, dup, versioned, specs)
           /\ instance = InstanceOf(L, tail, versioned, specs)

\* a short path of templates that contribute variables and resources
InitContent ==
    \E L \in 0..MaxContent : \E tail \in Tails(L) \ {Target("ondisk", 0)} :
    \E specs \in [0..L -> SpecSet] :
        /\ cache = StoreOf(L, tail, <<0, 0>>, FALSE, specs)
        /\ instance = InstanceOf(L, tail, FALSE, specs)

InitEngine ==
    /\ mode = "engine"
    /\ heap = <<>>
    /\ peer = <<>>
    /\ disk = {<<"ondisk">>}
    /\ InitTopology \/ InitContent
    /\ Idle
    /\ args = NoValue
    /\ ret = NoValue

(***************************************************************************)
(* core/engine.py ResolutionEngine.resolve, with TemplateResolver.resolve   *)
(***************************************************************************)
Raise(e) ==
    /\ pc' = "raised"
    /\ err' = e

\* engine.py 96, resolver.py 70-73: resolve is called and the walk starts
ResolveCall ==
    /\ mode = "engine" /\ pc = "idle"
    /\ pc' = "walk"
    /\ chain' = <<>>
    /\ seen' = {}
    /\ current' = instance
    /\ depth' = 0
    /\ log' = Append(log, "chain")
    /\ UNCHANGED <<mode, heap, cache, peer, disk, instance, variables, merged, resolved, err, args, ret>>

\* the checks with the depth compared before the visited set is consulted
loop_check_depth_first(template_id, visited, d) ==
    IF d + 1 > max_depth THEN Exc("TemplateResolutionError")
    ELSE IF template_id \in visited THEN Exc("CircularDependencyError")
    ELSE NoValue

\* the checks with the depth bound hit one node early
loop_check_one_early(template_id, visited, d) ==
    IF template_id \in visited THEN Exc("CircularDependencyError")
    ELSE IF d + 1 >= max_depth THEN Exc("TemplateResolutionError")
    ELSE NoValue

\* resolver.py 76-89: the checks on the node just reached; NoValue lets it through
loop_check(template_id, visited, d) ==
    IF template_id \in visited THEN Exc("CircularDependencyError")
    ELSE IF d + 1 > max_depth THEN Exc("TemplateResolutionError")
    ELSE NoValue

\* the chain returned as it was walked, leaf first
returned_chain_leaf_first(templates, root) == Append(templates, root)

\* resolver.py 92, 102-105: the chain returned once the root is appended
returned_chain(templates, root) == Reverse(Append(templates, root))

\* resolver.py 94-100: the node is appended, its parent loaded
LoadParent(parent_ref) ==
    IF parent_ref = None
    THEN /\ chain' = returned_chain(chain, current)
         /\ pc' = "collect"
         /\ UNCHANGED <<current, err>>
    ELSE /\ chain' = Append(chain, current)
         /\ IF IsExc(load_template(parent_ref))
            THEN Raise(load_template(parent_ref)) /\ UNCHANGED current
            ELSE current' = load_template(parent_ref) /\ UNCHANGED <<pc, err>>

\* the outcome of the checks of one iteration
Visit(template_id, check) ==
    IF check = Exc("CircularDependencyError")
    THEN Raise(check) /\ UNCHANGED <<seen, depth, chain, current>>
    ELSE /\ seen' = seen \cup {template_id}
         /\ depth' = depth + 1
         /\ IF IsExc(check)
            THEN Raise(check) /\ UNCHANGED <<chain, current>>
            ELSE LoadParent(get_parent_ref(current))

\* resolver.py 75-105: one iteration of the loop; leaving it returns the chain
ResolverLoop ==
    /\ mode = "engine" /\ pc = "walk"
    /\ Visit(get_template_id(current), loop_check(get_template_id(current), seen, depth))
    /\ UNCHANGED <<mode, heap, cache, peer, disk, instance, variables, merged, resolved, log, args, ret>>

\* engine.py 99
CollectVariables ==
    /\ mode = "engine" /\ pc = "collect"
    /\ log' = Append(log, "variables")
    /\ variables' = collect_variables_from_chain(chain)
    /\ pc' = "merge"
    /\ UNCHANGED <<mode, heap, cache, peer, disk, instance, current, seen, depth, chain, merged,
                   resolved, err, args, ret>>

\* the dumps of one template's resources of one kind (engine.py 148-151)
resource_dicts(resource_list) ==
    PyList([i \in 1..Len(resource_list) |-> model_dump(resource_list[i])])

\* engine.py 142-159: the kinds of one template folded into merged;
\* m holds the dict merged and the exception raised
\* merged[resource_type] = r, unless merge_resources raised
store_type(m, resource_type, r) ==
    IF IsExc(r) THEN [m EXCEPT !.raised = r]
    ELSE [m EXCEPT !.merged = (resource_type :> r) @@ @]

\* engine.py 143-159: one kind of one template folded into merged
merge_type(m, resource_type, dicts) ==
    IF dicts.v = <<>> THEN m
    ELSE IF resource_type \notin DOMAIN m.merged THEN store_type(m, resource_type, dicts)
    ELSE store_type(m, resource_type, merge_resources(m.merged[resource_type], dicts))

\* engine.py 142-159: the kinds of one template; m holds merged and the exception raised
RECURSIVE merge_types(_, _, _)
merge_types(m, resources, i) ==
    IF i > Len(ResourceTypes) \/ IsExc(m.raised) THEN m
    ELSE merge_types(merge_type(m, ResourceTypes[i], resource_dicts(resources[ResourceTypes[i]])),
                     resources, i + 1)

RECURSIVE merge_templates(_, _, _)
merge_templates(m, templates, i) ==
    IF i > Len(templates) \/ IsExc(m.raised) THEN m
    ELSE merge_templates(merge_types(m, get_all_resources(templates[i].spec), 1),
                         templates, i + 1)

\* line 161: return merged, unless a merge raised
merged_or_exc(m) == IF IsExc(m.raised) THEN m.raised ELSE PyDict(m.merged)

\* ResolutionEngine._merge_chain_resources(chain): the dict, or the exception raised
merge_chain_resources(templates) ==
    merged_or_exc(merge_templates([merged |-> <<>>, raised |-> NoValue], templates, 1))

MergeOutcome(r) ==
    IF IsExc(r)
    THEN Raise(r) /\ UNCHANGED merged
    ELSE merged' = r /\ pc' = "interpolate" /\ UNCHANGED err

\* engine.py 102
MergeChainResources ==
    /\ mode = "engine" /\ pc = "merge"
    /\ log' = Append(log, "merge")
    /\ MergeOutcome(merge_chain_resources(chain))
    /\ UNCHANGED <<mode, heap, cache, peer, disk, instance, current, seen, depth, chain, variables,
                   resolved, args, ret>>

\* engine.py 105-109: every kind interpolated; the dict, or the exception raised
interpolate_resources(vs, m) ==
    dict_or_exc([k \in DOMAIN m.v |-> interpolate(vs, m.v[k])])

\* an interpolation failure swallowed, the resources merged so far returned
InterpolateOutcome_partial(r) ==
    /\ resolved' = [resources |-> merged, variables |-> variables, source_chain |-> chain]
    /\ pc' = "done"
    /\ UNCHANGED err

\* engine.py 105-115: the exception leaves resolve, or the configuration is returned
InterpolateOutcome(r) ==
    IF IsExc(r)
    THEN Raise(r) /\ UNCHANGED resolved
    ELSE /\ resolved' = [resources |-> r, variables |-> variables, source_chain |-> chain]
         /\ pc' = "done"
         /\ UNCHANGED err

\* engine.py 105-115
InterpolateAndReturn ==
    /\ mode = "engine" /\ pc = "interpolate"
    /\ log' = Append(log, "interpolate")
    /\ InterpolateOutcome(interpolate_resources(variables, merged))
    /\ UNCHANGED <<mode, heap, cache, peer, disk, instance, current, seen, depth, chain, variables,
                   merged, args, ret>>

\* the dicts filtered, the lists left as they are
RECURSIVE filter_internal_ids_dicts_only(_)
filter_internal_ids_dicts_only(obj) ==
    CASE obj.t = "dict" ->
            PyDict([k \in {j \in DOMAIN obj.v : j \notin InternalKeys}
                      |-> filter_internal_ids_dicts_only(obj.v[k])])
      [] OTHER -> obj

RECURSIVE filter_internal_ids(_)
\* engine.py 164-184: filter_internal_ids(obj)
filter_internal_ids(obj) ==
    CASE obj.t = "dict" ->
            PyDict([k \in {j \in DOMAIN obj.v : j \notin InternalKeys}
                      |-> filter_internal_ids(obj.v[k])])
      [] obj.t = "list" -> PyList([i \in 1..Len(obj.v) |-> filter_internal_ids(obj.v[i])])
      [] OTHER -> obj

\* engine.py 49-55: ResolvedConfiguration.to_api_payload(), resources the dict it holds
to_api_payload(resources) ==
    PyDict([resource_type \in {k \in DOMAIN resources.v : Truthy(resources.v[k])}
              |-> filter_internal_ids(resources.v[resource_type])])

NextEngine ==
    \/ ResolveCall
    \/ ResolverLoop
    \/ CollectVariables
    \/ MergeChainResources
    \/ InterpolateAndReturn

SpecEngine == InitEngine /\ [][NextEngine]_vars

(***************************************************************************)
(* core/merger.py called directly: merge_resources, merge_list_by_id and    *)
(* apply_ordering_directives on bounded arguments.                          *)
(***************************************************************************)
MaxBase == 2         \* longest base list
MaxOverride == 3     \* longest override list
MaxItems == 3        \* longest list of item ids
MaxDirectives == 2   \* longest list of ordering directives

\* the lists of at most n elements of S
ListsOf(S, n) == UNION {[1..k -> S] : k \in 0..n}
\* those that hold no element twice
DistinctListsOf(S, n) ==
    {s \in ListsOf(S, n) : \A i, j \in 1..Len(s) : i # j => s[i] # s[j]}

Id(s) == "_id" :> PyStr(s)
X(n) == "x" :> PyInt(n)
Name(s) == "name" :> PyStr(s)
Retention(n) == "retention" :> PyInt(n)
Paths(elements) == "paths" :> PyList(elements)
Delete == "_action" :> PyStr("delete")
After(s) == "_after" :> PyStr(s)
Before(s) == "_before" :> PyStr(s)
First == "_first" :> PyBool(TRUE)
Last == "_last" :> PyBool(TRUE)
Position(n) == "_position" :> PyInt(n)

\* base_list of merge_list_by_id: identified and anonymous elements
BaseElements ==
    { PyDict(Id("a") @@ X(1)), PyDict(Id("b") @@ X(1)), PyDict(X(1)) }

\* override_list of merge_list_by_id: updates, new elements, delete markers,
\* place-after and place-before directives, an empty _id
OverrideElements ==
    { PyDict(Id("a") @@ X(2)), PyDict(Id("n") @@ X(2)), PyDict(Id("m") @@ X(2)),
      PyDict(Id("a") @@ Delete), PyDict(Id("b") @@ Delete), PyDict(Id("n") @@ Delete),
      PyDict(Id("n") @@ After("a")), PyDict(Id("n") @@ After("z")),
      PyDict(Id("n") @@ Before("b")),
      PyDict(Id("a") @@ After("z")), PyDict(Id("a") @@ After("a")),
      PyDict(Id("b") @@ Before("a")),
      PyDict(Id("") @@ X(2)) }

\* base_list of merge_resources: resources named by name or by policy_name
BaseResources ==
    { PyDict(Name("a") @@ Retention(1)),
      PyDict(Name("a") @@ Retention(1)
             @@ Paths(<<PyDict(Id("p") @@ X(1)), PyDict(Id("q") @@ X(1))>>)),
      PyDict(Name("b") @@ Retention(1)),
      PyDict(("policy_name" :> PyStr("a")) @@ Name("n") @@ Retention(1)) }

\* override_list of merge_resources
OverrideResources ==
    { PyDict(Name("a") @@ Retention(2)),
      PyDict(Name("a") @@ ("retention" :> None) @@ ("tier" :> PyStr("fast"))),
      PyDict(Name("a") @@ Delete),
      PyDict(Name("a") @@ ("action" :> PyStr("delete"))),
      PyDict(Name("b") @@ Retention(2)),
      PyDict(Name("c") @@ Retention(2)),
      PyDict(Name("a") @@ Paths(<<PyDict(Id("p") @@ X(2)), PyDict(Id("r") @@ X(2))>>)),
      PyDict(Name("a") @@ Paths(<<PyDict(X(2)), PyInt(7)>>)),
      PyDict(Name("a") @@ Paths(<<PyDict(Id("q") @@ First)>>)),
      PyDict(Name("a") @@ Paths(<<PyDict(Id("p") @@ Delete)>>)) }

\* resources without name and policy_name, among resources that have one
UnnamedBaseResources == { PyDict(Retention(1)), PyDict(Name("a") @@ Retention(1)) }
UnnamedOverrideResources == { PyDict(Retention(2)), PyDict(Name("a") @@ Retention(2)) }

\* base_list of merge_list_by_id with elements that carry no _id, a primitive
\* and an empty _id
AnonymousBaseElements ==
    { PyDict(Id("a") @@ X(1)), PyDict(X(1)), PyInt(5), PyDict(Id("") @@ X(1)) }

\* override_list of merge_list_by_id with elements that carry no _id: a copy of
\* a base element, one with a directive, one with a delete marker, a primitive
AnonymousOverrideElements ==
    { PyDict(Id("a") @@ Last), PyDict(Id("n") @@ X(2)),
      PyDict(X(1)), PyDict(X(2) @@ First), PyDict(X(2) @@ Delete), PyInt(7),
      PyDict(Id("") @@ X(2)) }

ItemNames == <<"a", "b", "c", "d", "e">>
ItemIds(n) == [i \in 1..n |-> PyStr(ItemNames[i])]

\* directives on the second item and on an id no list holds; the references
\* are another item, an id no list holds and the second item itself
Directives(n) ==
    LET targets == {PyStr("b"), PyStr("z")}
        refs == {PyStr("c"), PyStr("z")}
    IN {Directive(id, "_position", PyInt(p)) : id \in targets, p \in 0..(n + 1)}
       \cup {Directive(id, type, PyBool(TRUE)) : id \in targets, type \in {"_first", "_last"}}
       \cup {Directive(id, type, ref) : id \in targets, type \in {"_after", "_before"},
                                        ref \in refs}
       \cup {Directive(PyStr("b"), type, PyStr("b")) : type \in {"_after", "_before"}}

NoEngine ==
    /\ heap = <<>>
    /\ cache = <<>>
    /\ peer = <<>>
    /\ disk = {}
    /\ instance = NoValue
    /\ Idle

InitMergeResources ==
    \E base \in DistinctListsOf(BaseResources, MaxBase) :
    \E override \in ListsOf(OverrideResources, MaxOverride) :
        args = [fn |-> "merge_resources", base_list |-> PyList(base),
                override_list |-> PyList(override)]

InitMergeUnnamed ==
    \E base \in DistinctListsOf(UnnamedBaseResources, MaxBase) :
    \E override \in ListsOf(UnnamedOverrideResources, MaxOverride) :
        args = [fn |-> "merge_resources", base_list |-> PyList(base),
                override_list |-> PyList(override)]

InitMergeListById ==
    \E base \in DistinctListsOf(BaseElements, MaxBase) :
    \E override \in ListsOf(OverrideElements, MaxOverride) :
        args = [fn |-> "merge_list_by_id", base_list |-> PyList(base),
                override_list |-> PyList(override)]

InitMergeAnonymous ==
    \E base \in DistinctListsOf(AnonymousBaseElements, MaxBase) :
    \E override \in ListsOf(AnonymousOverrideElements, MaxOverride) :
        args = [fn |-> "merge_list_by_id", base_list |-> PyList(base),
                override_list |-> PyList(override)]

InitApplyOrderingDirectives ==
    \E n \in 0..MaxItems : \E directives \in ListsOf(Directives(MaxItems), MaxDirectives) :
        args = [fn |-> "apply_ordering_directives", item_ids |-> ItemIds(n),
                directives |-> directives]

InitMerger ==
    /\ mode = "merger"
    /\ NoEngine
    /\ \/ InitMergeResources
       \/ InitMergeUnnamed
       \/ InitMergeListById
       \/ InitMergeAnonymous
       \/ InitApplyOrderingDirectives
    /\ ret = NoValue

\* merge_resources(base_list, override_list) is called
MergeResources ==
    /\ mode = "merger" /\ pc = "idle" /\ args.fn = "merge_resources"
    /\ ret' = merge_resources(args.base_list, args.override_list)
    /\ pc' = "returned"
    /\ UNCHANGED <<mode, heap, cache, peer, disk, instance, current, seen, depth, chain, variables,
                   merged, resolved, err, log, args>>

\* merge_resources is called again, its result the base, the override list unchanged
MergeResourcesAgain ==
    /\ mode = "merger" /\ pc = "returned" /\ args.fn = "merge_resources"
    /\ ~IsExc(ret)
    /\ args' = [args EXCEPT !.base_list = ret]
    /\ ret' = merge_resources(ret, args.override_list)
    /\ pc' = "reapplied"
    /\ UNCHANGED <<mode, heap, cache, peer, disk, instance, current, seen, depth, chain, variables,
                   merged, resolved, err, log>>

\* merge_list_by_id(base_list, override_list) is called
MergeListById ==
    /\ mode = "merger" /\ pc = "idle" /\ args.fn = "merge_list_by_id"
    /\ ret' = merge_list_by_id(args.base_list, args.override_list)
    /\ pc' = "returned"
    /\ UNCHANGED <<mode, heap, cache, peer, disk, instance, current, seen, depth, chain, variables,
                   merged, resolved, err, log, args>>

\* apply_ordering_directives(item_ids, directives) is called
ApplyOrderingDirectives ==
    /\ mode = "merger" /\ pc = "idle" /\ args.fn = "apply_ordering_directives"
    /\ ret' = apply_ordering_directives(args.item_ids, args.directives)
    /\ pc' = "returned"
    /\ UNCHANGED <<mode, heap, cache, peer, disk, instance, current, seen, depth, chain, variables,
                   merged, resolved, err, log, args>>

NextMerger ==
    \/ MergeResources
    \/ MergeResourcesAgain
    \/ MergeListById
    \/ ApplyOrderingDirectives

SpecMerger == InitMerger /\ [][NextMerger]_vars

(***************************************************************************)
(* core/interpolator.py called directly: Interpolator(variables).interpolate *)
(* and collect_variables_from_chain on bounded arguments.                   *)
(***************************************************************************)
MaxParts == 2        \* longest string, in literal parts and placeholders
MaxTemplates == 3    \* longest chain handed to collect_variables_from_chain

\* the parts of a string: a literal, placeholders of variables that some
\* variable maps define, a placeholder of a variable that none defines
Parts == {Lit("p="), Var("n"), Var("b"), Var("s"), Var("u")}

\* the strings of at most n parts that hold a placeholder; two literals next
\* to each other are one literal
TemplateStrings(n) ==
    {PyTemplate(parts) : parts \in
        {q \in ListsOf(Parts, n) :
            /\ \E i \in 1..Len(q) : IsVar(q[i])
            /\ \A i \in 1..(Len(q) - 1) : IsVar(q[i]) \/ IsVar(q[i + 1])}}

\* a string without placeholder and the primitives that are not strings
Primitives == {PyStr("p="), PyInt(5), PyBool(FALSE), None}

\* the variable maps of an Interpolator
VariableMaps ==
    { EmptyDict,
      PyDict("n" :> PyInt(42)),
      PyDict(("n" :> PyInt(42)) @@ ("b" :> PyBool(TRUE))),
      PyDict(("n" :> PyInt(42)) @@ ("b" :> PyBool(TRUE)) @@ ("s" :> PyStr("x"))),
      PyDict(("n" :> PyStr("7")) @@ ("s" :> PyDict("k" :> PyInt(1)))) }

\* what the fields of a resource hold: a plain string, a sole placeholder, a
\* placeholder of an undefined variable, text around another one
FieldValues ==
    { PyStr("p="), PyTemplate(<<Var("n")>>), PyTemplate(<<Var("u")>>),
      PyTemplate(<<Lit("p="), Var("w")>>) }

\* resources with internal fields, in a list as the engine hands them over
Resources ==
    { PyList(<<PyDict(("name" :> a) @@ ("_id" :> b) @@ ("_action" :> c)
                      @@ ("tiers" :> PyList(<<PyDict(("_after" :> d) @@ ("retention" :> e))>>)))>>) :
        a \in FieldValues,
        b \in {PyStr("fast"), PyTemplate(<<Var("u")>>), PyDict("name" :> PyTemplate(<<Var("u")>>))},
        c \in {PyStr("delete"), PyTemplate(<<Var("s")>>), PyTemplate(<<Var("u")>>)},
        d \in {PyStr("fast"), PyTemplate(<<Var("n")>>), PyTemplate(<<Var("u")>>)},
        e \in FieldValues }

\* the variable maps of the templates of a chain
TemplateVars ==
    { EmptyDict,
      PyDict("n" :> PyInt(1)),
      PyDict("n" :> PyInt(2)),
      PyDict(("n" :> PyInt(3)) @@ ("d" :> PyDict("k" :> PyInt(1)))),
      PyDict(("d" :> PyDict("j" :> PyInt(2))) @@ ("s" :> PyStr("x"))) }

\* a chain whose templates define the variable maps maps, root first
ChainOf(maps) ==
    [i \in 1..Len(maps) |->
        ConfigTemplate(NodeName(Len(maps) - i),
                       IF i = 1 THEN None ELSE Extends(Target("node", Len(maps) + 1 - i), FALSE),
                       TemplateSpec(maps[i], <<>>))]

InitInterpolate ==
    \E vs \in VariableMaps :
    \E obj \in TemplateStrings(MaxParts) \cup Primitives \cup Resources :
        args = [fn |-> "interpolate", variables |-> vs, obj |-> obj]

InitCollect ==
    \E maps \in ListsOf(TemplateVars, MaxTemplates) :
        args = [fn |-> "collect_variables_from_chain", chain |-> ChainOf(maps)]

InitInterpolator ==
    /\ mode = "interpolator"
    /\ NoEngine
    /\ InitInterpolate \/ InitCollect
    /\ ret = NoValue

\* Interpolator(variables).interpolate(obj) is called
Interpolate ==
    /\ mode = "interpolator" /\ pc = "idle" /\ args.fn = "interpolate"
    /\ ret' = interpolate(args.variables, args.obj)
    /\ pc' = "returned"
    /\ UNCHANGED <<mode, heap, cache, peer, disk, instance, current, seen, depth, chain, variables,
                   merged, resolved, err, log, args>>

\* collect_variables_from_chain(chain) is called
CollectVariablesFromChain ==
    /\ mode = "interpolator" /\ pc = "idle" /\ args.fn = "collect_variables_from_chain"
    /\ ret' = collect_variables_from_chain(args.chain)
    /\ pc' = "returned"
    /\ UNCHANGED <<mode, heap, cache, peer, disk, instance, current, seen, depth, chain, variables,
                   merged, resolved, err, log, args>>

NextInterpolator ==
    \/ Interpolate
    \/ CollectVariablesFromChain

SpecInterpolator == InitInterpolator /\ [][NextInterpolator]_vars

(***************************************************************************)
(* core/validator.py ConsistencyValidator                                   *)
(***************************************************************************)
ValidationError(resource_type, resource_name, field, reference, message) ==
    [resource_type |-> resource_type, resource_name |-> resource_name, field |-> field,
     reference |-> reference, message |-> message]

\* self.resources.get(resource_type, [])
resources_of(resources, resource_type) ==
    IF resource_type \in DOMAIN resources.v THEN resources.v[resource_type].v ELSE <<>>

\* d.get(k, default)
GetOr(d, k, default) == IF k \in DOMAIN d.v THEN d.v[k] ELSE default

\* ConsistencyValidator._get_resource_names
get_resource_names(resources, resource_type, name_field) ==
    LET rs == resources_of(resources, resource_type)
    IN {GetOr(rs[i], name_field, Get(rs[i], "name")) :
           i \in {j \in 1..Len(rs) :
                     Truthy(Get(rs[j], name_field)) \/ Truthy(Get(rs[j], "name"))}}

\* validator.py 80-88: the error of the catch_all of one routing policy, if any
catch_all_errors(rp, rp_name, repo_names) ==
    IF Truthy(Get(rp, "catch_all")) /\ Get(rp, "catch_all") \notin repo_names
    THEN <<ValidationError("routing_policies", rp_name, "catch_all", rp.v["catch_all"],
                           "catch_all references non-existent repo: " \o rp.v["catch_all"].v)>>
    ELSE <<>>

\* validator.py 91-100: the errors of the criteria of one routing policy, in order
criterion_errors(rp, rp_name, repo_names) ==
    LET dangling == SelectSeq(GetOr(rp, "routing_criteria", PyList(<<>>)).v,
                              LAMBDA criterion : /\ Truthy(Get(criterion, "repo"))
                                                 /\ Get(criterion, "repo") \notin repo_names)
    IN [i \in 1..Len(dangling) |->
          ValidationError("routing_policies", rp_name, "routing_criteria.repo",
                          dangling[i].v["repo"],
                          "criterion references non-existent repo: " \o dangling[i].v["repo"].v)]

\* ConsistencyValidator._validate_routing_policies, from policy i on
RECURSIVE validate_routing_policies(_, _, _)
validate_routing_policies(rps, repo_names, i) ==
    IF i > Len(rps) THEN <<>>
    ELSE catch_all_errors(rps[i], GetOr(rps[i], "policy_name", PyStr("unknown")), repo_names)
         \o criterion_errors(rps[i], GetOr(rps[i], "policy_name", PyStr("unknown")), repo_names)
         \o validate_routing_policies(rps, repo_names, i + 1)

\* validator.py 104-116: the error of one processing policy, if any
routing_policy_errors(pp, routing_policy_names) ==
    IF Truthy(Get(pp, "routingPolicy")) /\ Get(pp, "routingPolicy") \notin routing_policy_names
    THEN <<ValidationError("processing_policies", GetOr(pp, "name", PyStr("unknown")),
                           "routingPolicy", pp.v["routingPolicy"],
                           "references non-existent routing policy: " \o pp.v["routingPolicy"].v)>>
    ELSE <<>>

\* ConsistencyValidator._validate_processing_policies, from policy i on
RECURSIVE validate_processing_policies(_, _, _)
validate_processing_policies(pps, routing_policy_names, i) ==
    IF i > Len(pps) THEN <<>>
    ELSE routing_policy_errors(pps[i], routing_policy_names)
         \o validate_processing_policies(pps, routing_policy_names, i + 1)

\* the validation given up at the first error
validate_first_only(resources) ==
    LET errors == validate_routing_policies(resources_of(resources, "routing_policies"),
                                            get_resource_names(resources, "repos", "name"), 1)
    IN PyList(IF errors = <<>> THEN <<>> ELSE <<Head(errors)>>)

\* ConsistencyValidator(resources).validate(): the list self.errors
validate(resources) ==
    PyList(validate_routing_policies(resources_of(resources, "routing_policies"),
                                     get_resource_names(resources, "repos", "name"), 1)
           \o validate_processing_policies(
                  resources_of(resources, "processing_policies"),
                  get_resource_names(resources, "routing_policies", "policy_name"), 1))

(***************************************************************************)
(* ResolvedConfiguration.to_api_payload (core/engine.py) and                *)
(* ConsistencyValidator.validate (core/validator.py) called on bounded      *)
(* resources.                                                               *)
(***************************************************************************)
MaxRecords == 2      \* longest list of resources of one kind

\* resources with internal fields at the top, in a nested list, in a nested
\* dict, in a list inside a list
Records ==
    { PyDict(Name("a") @@ Retention(1)),
      PyDict(Name("a") @@ Id("x") @@ ("action" :> PyStr("delete"))),
      PyDict(Name("b") @@ Delete
             @@ Paths(<<PyDict(Id("p") @@ X(1) @@ After("q")), PyInt(7),
                        PyList(<<PyDict(Id("z") @@ X(2))>>)>>)),
      PyDict(Name("c") @@ ("meta" :> PyDict(Id("m") @@ X(1) @@ Paths(<<PyDict(First)>>)))) }

\* the lists of one kind, and the kind left out of the dict
KindLists == {PyList(l) : l \in ListsOf(Records, MaxRecords)} \cup {NoValue}

\* the dict ResolvedConfiguration.resources
ResourcesOf(repos, policies) ==
    PyDict([k \in (IF repos = NoValue THEN {} ELSE {"repos"})
                  \cup (IF policies = NoValue THEN {} ELSE {"routing_policies"})
              |-> IF k = "repos" THEN repos ELSE policies])

InitToApiPayload ==
    \E repos \in KindLists : \E policies \in KindLists :
        args = [fn |-> "to_api_payload", resources |-> ResourcesOf(repos, policies)]

MaxCriteria == 2     \* longest list of routing criteria of a policy
MaxPolicies == 2     \* longest list of routing policies

RepoNamed(name) == PyDict(Name(name) @@ ("hiddenrepopath" :> PyList(<<>>)))
Criterion(repo) == PyDict(("id" :> PyStr("c")) @@ ("repo" :> PyStr(repo)))
RoutingPolicy(policy_name, catch_all, criteria) ==
    PyDict(("policy_name" :> PyStr(policy_name)) @@ ("catch_all" :> PyStr(catch_all))
           @@ ("routing_criteria" :> PyList(criteria)))

\* the merged repos: none, one, two
RepoLists == {<<>>, <<RepoNamed("a")>>, <<RepoNamed("a"), RepoNamed("b")>>}

\* what a routing policy refers to: its catch_all and the repos of its
\* criteria, each a repo that may be merged ("a") or one that never is ("z")
References ==
    {[catch_all |-> c, criteria |-> l] :
        c \in {"a", "z"}, l \in ListsOf({Criterion("a"), Criterion("z")}, MaxCriteria)}

\* routing policies rp1, rp2, ... with those references
PoliciesOf(refs) ==
    [i \in 1..Len(refs) |->
        RoutingPolicy("rp" \o ToString(i), refs[i].catch_all, refs[i].criteria)]

\* resources out of the ordinary: a kind left out, a policy without name, an
\* empty reference, a criterion without repo, a policy without criteria, two
\* policies of one name, a repo without name, a processing policy
OddResources ==
    { PyDict("routing_policies" :> PyList(<<RoutingPolicy("rp1", "a", <<Criterion("a")>>)>>)),
      PyDict(("repos" :> PyList(<<RepoNamed("a")>>))
             @@ ("routing_policies" :> PyList(
                    <<PyDict(("catch_all" :> PyStr("z"))
                             @@ ("routing_criteria" :> PyList(<<Criterion("z")>>)))>>))),
      PyDict(("repos" :> PyList(<<RepoNamed("a")>>))
             @@ ("routing_policies" :> PyList(
                    <<RoutingPolicy("rp1", "", <<Criterion(""), PyDict("id" :> PyStr("c")),
                                                 Criterion("z")>>)>>))),
      PyDict(("repos" :> PyList(<<RepoNamed("a")>>))
             @@ ("routing_policies" :> PyList(
                    <<PyDict(("policy_name" :> PyStr("rp1")) @@ ("catch_all" :> PyStr("z")))>>))),
      PyDict(("repos" :> PyList(<<RepoNamed("a")>>))
             @@ ("routing_policies" :> PyList(
                    <<RoutingPolicy("rp1", "z", <<Criterion("z"), Criterion("z")>>),
                      RoutingPolicy("rp1", "z", <<>>)>>))),
      PyDict(("repos" :> PyList(<<PyDict("hiddenrepopath" :> PyList(<<>>)), RepoNamed("b")>>))
             @@ ("routing_policies" :> PyList(<<RoutingPolicy("rp1", "b", <<Criterion("a")>>)>>))),
      PyDict(("repos" :> PyList(<<RepoNamed("a")>>))
             @@ ("routing_policies" :> PyList(<<RoutingPolicy("rp1", "z", <<>>)>>))
             @@ ("processing_policies" :> PyList(
                    <<PyDict(Name("pp") @@ ("routingPolicy" :> PyStr("rpz"))),
                      PyDict(Name("pq") @@ ("routingPolicy" :> PyStr("rp1")))>>))) }

InitValidate ==
    \/ \E repos \in RepoLists : \E refs \in ListsOf(References, MaxPolicies) :
          args = [fn |-> "validate",
                  resources |-> PyDict(("repos" :> PyList(repos))
                                       @@ ("routing_policies" :> PyList(PoliciesOf(refs))))]
    \/ \E resources \in OddResources :
          args = [fn |-> "validate", resources |-> resources]

InitResources ==
    /\ mode = "resources"
    /\ NoEngine
    /\ InitToApiPayload \/ InitValidate
    /\ ret = NoValue

\* ResolvedConfiguration(resources, ...).to_api_payload() is called
ToApiPayload ==
    /\ mode = "resources" /\ pc = "idle" /\ args.fn = "to_api_payload"
    /\ ret' = to_api_payload(args.resources)
    /\ pc' = "returned"
    /\ UNCHANGED <<mode, heap, cache, peer, disk, instance, current, seen, depth, chain, variables,
                   merged, resolved, err, log, args>>

\* ConsistencyValidator(resources).validate() is called
Validate ==
    /\ mode = "resources" /\ pc = "idle" /\ args.fn = "validate"
    /\ ret' = validate(args.resources)
    /\ pc' = "returned"
    /\ UNCHANGED <<mode, heap, cache, peer, disk, instance, current, seen, depth, chain, variables,
                   merged, resolved, err, log, args>>

NextResources ==
    \/ ToApiPayload
    \/ Validate

SpecResources == InitResources /\ [][NextResources]_vars

(***************************************************************************)
(* What the claims speak of, read off the store and the instance alone.     *)
(***************************************************************************)
\* the reference with its version suffix dropped
VersionFree(tokens) ==
    IF \E i \in 1..Len(tokens) : tokens[i] = "@"
    THEN SubSeq(tokens, 1, (CHOOSE i \in 1..Len(tokens) :
                               tokens[i] = "@" /\ \A j \in 1..(i-1) : tokens[j] # "@") - 1)
    ELSE tokens

IsRoot(template) == template.metadata.extends = None
ParentLoads(template) ==
    ~IsRoot(template) /\ VersionFree(template.metadata.extends.v) \in DOMAIN cache
Parent(template) == cache[VersionFree(template.metadata.extends.v)]

\* the parent-reference walk from template, leaf first, cut after n nodes
RECURSIVE Ancestors(_, _)
Ancestors(template, n) ==
    IF n = 0 THEN <<>>
    ELSE IF ParentLoads(template) THEN <<template>> \o Ancestors(Parent(template), n - 1)
    ELSE <<template>>

DistinctIds(templates) ==
    \A i, j \in 1..Len(templates) :
        i # j => templates[i].metadata.name # templates[j].metadata.name

\* the first max_depth + 1 nodes of the walk, and as much of it as can repeat
Walk == Ancestors(instance, max_depth + 1)
FullWalk == Ancestors(instance, Cardinality(DOMAIN cache) + 2)

\* the walk reaches a root within the maximum depth, visiting no template id twice
AcyclicWithinDepth ==
    /\ Len(Walk) <= max_depth
    /\ IsRoot(Walk[Len(Walk)])
    /\ DistinctIds(Walk)

ResolverReturned == pc = "collect" \/ (pc \notin {"idle", "walk"} /\ Len(log) > 1)
ResolverRaised == pc = "raised" /\ log = <<"chain">>
ResolverFinished == ResolverReturned \/ ResolverRaised

\* C1: for a leaf whose walk is acyclic (no template id twice) with h hops and
\* h + 1 <= the maximum depth, the resolver returns h + 1 templates: the root
\* first, the leaf last, every template followed by the one that extends it.
C1_ChainRootToLeaf ==
    (AcyclicWithinDepth /\ ResolverFinished) =>
        /\ ResolverReturned
        /\ Len(chain) = Len(Walk)
        /\ IsRoot(chain[1])
        /\ chain[Len(chain)] = instance
        /\ \A i \in 1..(Len(chain) - 1) :
              /\ ParentLoads(chain[i + 1])
              /\ Parent(chain[i + 1]) = chain[i]

C1_Witness ==
    /\ AcyclicWithinDepth
    /\ pc = "collect"
    /\ Len(chain) = max_depth
    /\ chain[1] # chain[2]

\* C2 as claimed: whenever the walk reaches a template id already visited, resolve
\* raises CircularDependency and no variable collection, merge or interpolation ran.
C2_RevisitRaisesCircular ==
    (~DistinctIds(FullWalk) /\ pc \notin {"idle", "walk"}) =>
        /\ pc = "raised"
        /\ err = Exc("CircularDependencyError")
        /\ log = <<"chain">>
        /\ variables = NoValue /\ merged = NoValue /\ resolved = NoValue

\* C2 amended: the same, when the revisit comes within the first max_depth + 1
\* nodes of the walk.
C2_EarlyRevisitRaisesCircular ==
    (~DistinctIds(Walk) /\ pc \notin {"idle", "walk"}) =>
        /\ pc = "raised"
        /\ err = Exc("CircularDependencyError")
        /\ log = <<"chain">>
        /\ variables = NoValue /\ merged = NoValue /\ resolved = NoValue

C2_Witness ==
    /\ ~DistinctIds(Walk)
    /\ DistinctIds(SubSeq(Walk, 1, Len(Walk) - 1))
    /\ Len(Walk) = max_depth + 1
    /\ pc = "raised"
    /\ err = Exc("CircularDependencyError")

\* C3: the resolver raises the maximum-depth error exactly when the walk has more
\* than max_depth nodes before it ends, fails to load or revisits a template id;
\* a walk of exactly max_depth nodes returns, and no returned chain is longer.
C3_MaxDepthExactly ==
    ResolverFinished =>
        /\ (ResolverRaised /\ err = Exc("TemplateResolutionError"))
              <=> (Len(Walk) = max_depth + 1 /\ DistinctIds(Walk))
        /\ ResolverReturned => Len(chain) <= max_depth
        /\ (AcyclicWithinDepth /\ Len(Walk) = max_depth)
              => (ResolverReturned /\ Len(chain) = max_depth)

C3_Witness ==
    /\ ResolverRaised
    /\ err = Exc("TemplateResolutionError")
    /\ depth = max_depth + 1
    /\ Len(chain) = max_depth

Phases == <<"chain", "variables", "merge", "interpolate">>

\* C4: resolve returns a configuration computed from the complete chain or raises;
\* an exception of any phase leaves resolve unchanged, nothing is returned, no
\* later phase runs and no phase runs twice.
C4_FailFast ==
    /\ log = SubSeq(Phases, 1, Len(log))
    /\ (err # NoValue) <=> (pc = "raised")
    /\ (resolved # NoValue) <=> (pc = "done")
    /\ pc = "raised" =>
          /\ resolved = NoValue
          /\ ~ENABLED NextEngine
          /\ log = <<"chain">> =>
                err.v \in {"CircularDependencyError", "TemplateResolutionError",
                           "TemplateNotFoundError", "NotImplementedError"}
          /\ Len(log) = 3 => err = merge_chain_resources(chain)
          /\ Len(log) = 4 => err = interpolate_resources(variables, merged)
    /\ (Len(log) = 4 /\ IsExc(interpolate_resources(variables, merged))) => pc = "raised"
    /\ pc = "done" =>
          /\ log = Phases
          /\ ~ENABLED NextEngine
          /\ resolved.source_chain = chain
          /\ IsRoot(chain[1]) /\ chain[Len(chain)] = instance
          /\ resolved.variables = variables
          /\ resolved.resources = interpolate_resources(variables, merged)

C4_Witness ==
    /\ pc = "raised"
    /\ err.v = "VariableNotFoundError"
    /\ log = Phases
    /\ merged # NoValue

\* the identities of the resources of a list
Identities(resources) == {get_resource_name(resources.v[i]) : i \in 1..Len(resources.v)}

\* C7: every kind's merged list in the result of resolve holds at most one
\* resource per identity value.
C7_OnePerIdentity ==
    pc = "done" =>
        \A k \in DOMAIN resolved.resources.v :
            Cardinality(Identities(resolved.resources.v[k])) = Len(resolved.resources.v[k].v)

(***************************************************************************)
(* What the claims on core/merger.py speak of.                              *)
(***************************************************************************)
ResourcesReturned ==
    mode = "merger" /\ args.fn = "merge_resources" /\ pc = "returned" /\ ~IsExc(ret)
ListCalled == mode = "merger" /\ args.fn = "merge_list_by_id" /\ pc = "returned"
ListReturned == ListCalled /\ ~IsExc(ret)
OrderReturned ==
    mode = "merger" /\ args.fn = "apply_ordering_directives" /\ pc = "returned" /\ ~IsExc(ret)

Scalar(value) == value.t \in {"int", "str", "bool"}
ElementId(e) == IF e.t = "dict" /\ Has(e, "_id") THEN e.v["_id"] ELSE None
\* the identity the called function matches entries by
EntryIdentity(e) ==
    IF args.fn = "merge_resources" THEN get_resource_name(e) ELSE ElementId(e)
EntryDeleted(e) ==
    /\ e.t = "dict"
    /\ \/ Get(e, "_action") = PyStr("delete")
       \/ args.fn = "merge_resources" /\ Get(e, "action") = PyStr("delete")
\* the positions of list that hold an entry of identity k
Named(list, k) == {i \in 1..Len(list.v) : EntryIdentity(list.v[i]) = k}
IdentitiesOf(list) == {EntryIdentity(list.v[i]) : i \in 1..Len(list.v)} \ {None}
TheEntry(list, k) == list.v[CHOOSE i \in Named(list, k) : TRUE]

\* identity k is held by one base resource and one override resource, which
\* is merged into it
MergedOnce(k) ==
    /\ Cardinality(Named(args.base_list, k)) = 1
    /\ Cardinality(Named(args.override_list, k)) = 1
    /\ ~EntryDeleted(TheEntry(args.override_list, k))

OverrideWins(b, o, m) ==
    /\ \A f \in DOMAIN o.v : Scalar(o.v[f]) => (f \in DOMAIN m.v /\ m.v[f] = o.v[f])
    /\ \A f \in DOMAIN b.v :
          (f \notin DOMAIN o.v \/ o.v[f] = None) => (f \in DOMAIN m.v /\ m.v[f] = b.v[f])
    /\ DOMAIN b.v \subseteq DOMAIN m.v

\* C5: when merge_resources merges an override resource into the base resource
\* of the same identity, every scalar field the override sets to a non-null
\* value has the override's value, every base field the override omits or
\* sets to null keeps the base's value, no base field disappears, and the
\* result holds exactly one resource of that identity.
C5_OverrideWinsNullKeeps ==
    ResourcesReturned =>
        \A k \in IdentitiesOf(args.base_list) :
            MergedOnce(k) =>
                /\ Cardinality(Named(ret, k)) = 1
                /\ OverrideWins(TheEntry(args.base_list, k), TheEntry(args.override_list, k),
                                TheEntry(ret, k))

C5_Witness ==
    /\ ResourcesReturned
    /\ \E k \in IdentitiesOf(args.base_list) :
          /\ MergedOnce(k)
          /\ \E f \in DOMAIN TheEntry(args.base_list, k).v :
                /\ Get(TheEntry(args.override_list, k), f) = None
                /\ Has(TheEntry(args.override_list, k), f)
                /\ TheEntry(ret, k).v[f] = TheEntry(args.base_list, k).v[f]
    /\ \E k \in IdentitiesOf(args.base_list) :
          /\ MergedOnce(k)
          /\ \E f \in DOMAIN TheEntry(args.base_list, k).v :
                /\ Has(TheEntry(args.override_list, k), f)
                /\ Scalar(TheEntry(args.override_list, k).v[f])
                /\ TheEntry(args.override_list, k).v[f] # TheEntry(args.base_list, k).v[f]
                /\ TheEntry(ret, k).v[f] = TheEntry(args.override_list, k).v[f]

MergeReturned ==
    /\ mode = "merger" /\ pc = "returned" /\ ~IsExc(ret)
    /\ args.fn \in {"merge_resources", "merge_list_by_id"}

\* the base entries no delete marker names are still in the result
UnmarkedBaseKept ==
    \A j \in 1..Len(args.base_list.v) :
        LET b == args.base_list.v[j]
        IN IF EntryIdentity(b) = None THEN Contains(ret.v, b)
           ELSE (\A i \in Named(args.override_list, EntryIdentity(b)) :
                    ~EntryDeleted(args.override_list.v[i]))
                => Named(ret, EntryIdentity(b)) # {}

\* C6 as claimed: for every base list and override list, an override entry that
\* carries the delete marker removes the base entry of the same identity, so
\* the result of merge_resources or merge_list_by_id holds no entry of that
\* identity, and every base entry no delete marker names is still present.
C6_DeleteRemoves ==
    MergeReturned =>
        /\ \A i \in 1..Len(args.override_list.v) :
              LET o == args.override_list.v[i]
              IN (EntryDeleted(o) /\ EntryIdentity(o) \in IdentitiesOf(args.base_list))
                 => Named(ret, EntryIdentity(o)) = {}
        /\ UnmarkedBaseKept

\* the same, for the base entries the called function keeps track of: every
\* element of merge_list_by_id, the resources of merge_resources that have an
\* identity
TrackedBaseKept ==
    \A j \in 1..Len(args.base_list.v) :
        LET b == args.base_list.v[j]
        IN IF EntryIdentity(b) = None
           THEN args.fn = "merge_list_by_id" => Contains(ret.v, b)
           ELSE (\A i \in Named(args.override_list, EntryIdentity(b)) :
                    ~EntryDeleted(args.override_list.v[i]))
                => Named(ret, EntryIdentity(b)) # {}

\* C6 amended: the same, for a delete marker of a non-empty identity that no
\* later entry of the override list names again, and for the base entries
\* that have an identity (in merge_list_by_id, also those without _id).
C6_LastDeleteRemoves ==
    MergeReturned =>
        /\ \A i \in 1..Len(args.override_list.v) :
              LET o == args.override_list.v[i]
              IN (/\ EntryDeleted(o)
                  /\ EntryIdentity(o) \in IdentitiesOf(args.base_list)
                  /\ Truthy(EntryIdentity(o))
                  /\ \A j \in Named(args.override_list, EntryIdentity(o)) : j <= i)
                 => Named(ret, EntryIdentity(o)) = {}
        /\ TrackedBaseKept

C6_Witness ==
    /\ MergeReturned
    /\ args.fn = "merge_list_by_id"
    /\ Len(args.base_list.v) = 2
    /\ Len(args.override_list.v) = 2
    /\ EntryDeleted(args.override_list.v[2])
    /\ ~EntryDeleted(args.override_list.v[1])
    /\ EntryIdentity(args.override_list.v[1]) = EntryIdentity(args.override_list.v[2])
    /\ EntryIdentity(args.override_list.v[2]) \in IdentitiesOf(args.base_list)
    /\ Named(ret, EntryIdentity(args.override_list.v[2])) = {}
    /\ Len(ret.v) = 1

Reapplied == mode = "merger" /\ args.fn = "merge_resources" /\ pc = "reapplied"

DirectiveKeys == {"_after", "_before", "_position", "_first", "_last"}

\* a nested list of identified elements only: distinct non-empty ids, no
\* ordering directive, no delete marker
PlainList(list) ==
    /\ \A i \in 1..Len(list.v) :
          /\ list.v[i].t = "dict"
          /\ Truthy(ElementId(list.v[i]))
          /\ DOMAIN list.v[i].v \cap (DirectiveKeys \cup {"_action"}) = {}
    /\ \A i, j \in 1..Len(list.v) : i # j => ElementId(list.v[i]) # ElementId(list.v[j])

PlainOverride ==
    \A i \in 1..Len(args.override_list.v) :
        \A f \in DOMAIN args.override_list.v[i].v :
            args.override_list.v[i].v[f].t = "list" => PlainList(args.override_list.v[i].v[f])

\* no resource a delete marker names is named again later in the override list
NoReAdd ==
    \A i \in 1..Len(args.override_list.v) :
        EntryDeleted(args.override_list.v[i]) =>
            \A j \in Named(args.override_list, EntryIdentity(args.override_list.v[i])) :
                j <= i \/ EntryDeleted(args.override_list.v[j])

AllOn(id) ==
    /\ args.directives # <<>>
    /\ \A i \in 1..Len(args.directives) : args.directives[i].id = id
OfType(types) == {i \in 1..Len(args.directives) : args.directives[i].type \in types}

\* C9: an element that carries conflicting directives is placed by the one of
\* highest precedence: with an absolute position p among them it ends at
\* 1-based position p, whatever the order the directives are given in, and
\* with pin-first against place-after or place-before it ends first.
C9_HighestPrecedenceWins ==
    OrderReturned =>
        \A n \in 1..Len(args.item_ids) :
            AllOn(args.item_ids[n]) =>
                /\ \A i \in OfType({"_position"}) :
                      (/\ Cardinality(OfType({"_position"})) = 1
                       /\ args.directives[i].value.v \in 1..Len(args.item_ids))
                      => ret.v[args.directives[i].value.v] = args.item_ids[n]
                /\ (OfType({"_position", "_last"}) = {} /\ OfType({"_first"}) # {})
                      => ret.v[1] = args.item_ids[n]

IdOrder(list) == [i \in 1..Len(list.v) |-> ElementId(list.v[i])]
IdSet(list) == {ElementId(list.v[i]) : i \in 1..Len(list.v)} \ {None}
Strip(e, keys) == IF e.t = "dict" THEN PyDict([k \in DOMAIN e.v \ keys |-> e.v[k]]) ELSE e
Stripped(list) == PyList([i \in 1..Len(list.v) |-> Strip(list.v[i], DirectiveKeys)])

\* the ids of the merged list, which no ordering directive changes
MergedIds == IdSet(merge_list_by_id(args.base_list, Stripped(args.override_list)))
\* the place-after and place-before directives of e that name an id not in it
AbsentRefs(e) ==
    IF e.t = "dict" /\ Truthy(ElementId(e))
    THEN {k \in {"_after", "_before"} \cap DOMAIN e.v : e.v[k] \notin MergedIds}
    ELSE {}
\* the override list without those directives
WithoutAbsentRefs ==
    PyList([i \in 1..Len(args.override_list.v) |->
               Strip(args.override_list.v[i], AbsentRefs(args.override_list.v[i]))])
IndexIn(list, id) == CHOOSE p \in 1..Len(list.v) : ElementId(list.v[p]) = id
\* the first entry of list that brings in id (a delete marker brings in nothing)
Brings(list, p, id) == ElementId(list.v[p]) = id /\ ~EntryDeleted(list.v[p])
FirstNamed(list, id) ==
    CHOOSE p \in 1..Len(list.v) :
        Brings(list, p, id) /\ \A q \in 1..(p - 1) : ~Brings(list, q, id)

NoLiveDirective ==
    \A i \in 1..Len(WithoutAbsentRefs.v) :
        LET o == WithoutAbsentRefs.v[i]
        IN (o.t = "dict" /\ Truthy(ElementId(o))) => DOMAIN o.v \cap DirectiveKeys = {}

\* the non-empty ids the override list brought in
NewIds == {id \in IdSet(ret) \ IdSet(args.base_list) : Truthy(id)}

\* the ids of the base elements that no delete marker of the override list names
KeptIds ==
    {id \in IdSet(args.base_list) :
        \A i \in Named(args.override_list, id) : ~EntryDeleted(args.override_list.v[i])}

Directed == {i \in 1..Len(args.override_list.v) :
                /\ args.override_list.v[i].t = "dict"
                /\ DOMAIN args.override_list.v[i].v \cap DirectiveKeys # {}}
\* the override list carries one directive, of type key, on an identified
\* element other than the one it refers to, and both are in the result
SingleDirective(i, key) ==
    /\ Directed = {i}
    /\ DOMAIN args.override_list.v[i].v \cap DirectiveKeys = {key}
    /\ Truthy(ElementId(args.override_list.v[i]))
    /\ Truthy(args.override_list.v[i].v[key])
    /\ args.override_list.v[i].v[key] # ElementId(args.override_list.v[i])
    /\ args.override_list.v[i].v[key] \in IdSet(ret)
    /\ ElementId(args.override_list.v[i]) \in IdSet(ret)
\* the identified base elements other than id are in the result in base order
OthersInBaseOrder(id) ==
    \A x, y \in (IdSet(args.base_list) \cap IdSet(ret)) \ {id} :
        IndexIn(args.base_list, x) < IndexIn(args.base_list, y)
            => IndexIn(ret, x) < IndexIn(ret, y)

\* C11 as claimed: when the override list of merge_list_by_id carries a single
\* ordering directive, place-after ref (resp. place-before ref), on an element
\* other than ref, and ref is in the merged list, the element ends immediately
\* after (resp. before) ref and all other identified elements keep their
\* relative base order.
C11_PlacedNextToRef ==
    ListReturned =>
        \A i \in 1..Len(args.override_list.v) :
            LET o == args.override_list.v[i]
            IN /\ SingleDirective(i, "_after") =>
                     /\ IndexIn(ret, ElementId(o)) = IndexIn(ret, o.v["_after"]) + 1
                     /\ OthersInBaseOrder(ElementId(o))
               /\ SingleDirective(i, "_before") =>
                     /\ IndexIn(ret, ElementId(o)) = IndexIn(ret, o.v["_before"]) - 1
                     /\ OthersInBaseOrder(ElementId(o))

\* the identified base elements no delete marker names, other than id, are in
\* the result in base order
KeptInBaseOrder(id) ==
    \A x, y \in (KeptIds \cap IdSet(ret)) \ {id} :
        IndexIn(args.base_list, x) < IndexIn(args.base_list, y)
            => IndexIn(ret, x) < IndexIn(ret, y)

\* C11 amended: the same, the relative base order being kept by the identified
\* base elements that no delete marker of the override list names.
C11_PlacedNextToRefKeptOrder ==
    ListReturned =>
        \A i \in 1..Len(args.override_list.v) :
            LET o == args.override_list.v[i]
            IN /\ SingleDirective(i, "_after") =>
                     /\ IndexIn(ret, ElementId(o)) = IndexIn(ret, o.v["_after"]) + 1
                     /\ KeptInBaseOrder(ElementId(o))
               /\ SingleDirective(i, "_before") =>
                     /\ IndexIn(ret, ElementId(o)) = IndexIn(ret, o.v["_before"]) - 1
                     /\ KeptInBaseOrder(ElementId(o))

C11_Witness ==
    /\ ListReturned
    /\ Len(args.base_list.v) = 2
    /\ Len(args.override_list.v) = 1
    /\ SingleDirective(1, "_after")
    /\ ElementId(args.override_list.v[1]) \notin IdSet(args.base_list)
    /\ Len(ret.v) = 3
    /\ ElementId(ret.v[1]) = args.override_list.v[1].v["_after"]
    /\ ElementId(ret.v[2]) = ElementId(args.override_list.v[1])
    /\ ElementId(ret.v[3]) \in IdSet(args.base_list)

\* a resource of the call has neither name nor policy_name
Unnamed(list) == {i \in 1..Len(list.v) : get_resource_name(list.v[i]) = None}

\* C16: folding a contribution that holds a resource without identity field
\* (neither name nor policy_name) raises MergeError, whether the resource comes
\* with the first contribution (the base list of the fold) or with a later one
\* (the override list); it is never dropped silently nor kept in the result.
C16_MissingIdentityRaises ==
    (/\ mode = "merger" /\ args.fn = "merge_resources" /\ pc = "returned"
     /\ Unnamed(args.base_list) \cup Unnamed(args.override_list) # {})
    => ret = Exc("MergeError")

(***************************************************************************)
(* What the claims on core/interpolator.py speak of.                        *)
(***************************************************************************)
InterpolateCalled == mode = "interpolator" /\ args.fn = "interpolate" /\ pc = "returned"
IsString(obj) == obj.t \in {"str", "tstr"}
\* the variables the placeholders of a string name
PlaceholdersOf(obj) ==
    IF obj.t = "tstr" THEN {obj.v[i].var : i \in {j \in 1..Len(obj.v) : IsVar(obj.v[j])}}
    ELSE {}
\* the text of parts with every placeholder replaced by the string form of its value
RECURSIVE Rendered(_, _)
Rendered(vs, parts) ==
    IF parts = <<>> THEN ""
    ELSE (IF IsVar(Head(parts)) THEN PyStrOf(vs.v[Head(parts).var]) ELSE Head(parts).lit)
         \o Rendered(vs, Tail(parts))

\* C12: on a string that is exactly one placeholder, interpolate returns the
\* variable's value itself, its type kept; on a string that mixes placeholders
\* with text or holds several placeholders, the string with every placeholder
\* replaced by the string form of its value; a string without placeholder and
\* every primitive that is not a string are returned unchanged.
C12_TypeKeptOrStringified ==
    InterpolateCalled =>
        /\ (args.obj.t = "tstr" /\ PlaceholdersOf(args.obj) \subseteq DOMAIN args.variables.v) =>
              IF Len(args.obj.v) = 1
              THEN /\ ret = args.variables.v[args.obj.v[1].var]
                   /\ ret.t = args.variables.v[args.obj.v[1].var].t
              ELSE ret = PyStr(Rendered(args.variables, args.obj.v))
        /\ args.obj.t \in {"str", "int", "bool", "none"} => ret = args.obj

C12_Witness ==
    /\ InterpolateCalled
    /\ args.obj = PyTemplate(<<Var("b")>>)
    /\ ret = PyBool(TRUE)

\* the variables named by the placeholders of obj, those in the value of a
\* field whose key is in exempt left out
RECURSIVE Referenced(_, _)
Referenced(obj, exempt) ==
    CASE obj.t = "dict" -> UNION {Referenced(obj.v[k], exempt) : k \in DOMAIN obj.v \ exempt}
      [] obj.t = "list" -> UNION {Referenced(obj.v[i], exempt) : i \in 1..Len(obj.v)}
      [] OTHER -> PlaceholdersOf(obj)

\* the fields interpolate passes through
ExemptFields == InternalKeys \ {"_action"}
Undefined == Referenced(args.obj, ExemptFields) \ DOMAIN args.variables.v

\* C13: for every object that holds, in a field that is not exempt from
\* interpolation, a placeholder of a variable that is not defined, interpolate
\* raises VariableNotFound and returns nothing; the error names a missing
\* variable and lists exactly the names of the defined variables.
C13_UndefinedRaises ==
    (InterpolateCalled /\ Undefined # {}) =>
        /\ IsExc(ret)
        /\ ret.v = "VariableNotFoundError"
        /\ ret.missing \in Undefined
        /\ ret.available = DOMAIN args.variables.v

C13_Witness ==
    /\ InterpolateCalled
    /\ args.obj.t = "list"
    /\ args.variables = PyDict(("n" :> PyInt(42)) @@ ("b" :> PyBool(TRUE)))
    /\ args.obj.v[1].v["name"] = PyTemplate(<<Var("n")>>)
    /\ args.obj.v[1].v["_action"] = PyStr("delete")
    /\ Undefined = {"u"}
    /\ "u" \in Referenced(args.obj.v[1].v["tiers"], ExemptFields)
    /\ IsExc(ret)
    /\ ret.missing = "u"
    /\ ret.available = {"n", "b"}

\* out is obj with the values of the fields whose key is in exempt unchanged,
\* at every depth that is not itself inside such a field
RECURSIVE InternalKept(_, _, _)
InternalKept(obj, out, exempt) ==
    CASE obj.t = "dict" ->
            /\ out.t = "dict"
            /\ DOMAIN out.v = DOMAIN obj.v
            /\ \A k \in DOMAIN obj.v :
                  IF k \in exempt THEN out.v[k] = obj.v[k]
                  ELSE InternalKept(obj.v[k], out.v[k], exempt)
      [] obj.t = "list" ->
            /\ out.t = "list"
            /\ Len(out.v) = Len(obj.v)
            /\ \A i \in 1..Len(obj.v) : InternalKept(obj.v[i], out.v[i], exempt)
      [] OTHER -> TRUE

RECURSIVE ActionInterpolated(_, _)
ActionInterpolated(obj, out) ==
    CASE obj.t = "dict" ->
            \A k \in DOMAIN obj.v \ ExemptFields :
                /\ (k = "_action" /\ obj.v[k].t = "tstr") => out.v[k] # obj.v[k]
                /\ ActionInterpolated(obj.v[k], out.v[k])
      [] obj.t = "list" -> \A i \in 1..Len(obj.v) : ActionInterpolated(obj.v[i], out.v[i])
      [] OTHER -> TRUE

CollectCalled ==
    mode = "interpolator" /\ args.fn = "collect_variables_from_chain" /\ pc = "returned"
VarsOf(i) == args.chain[i].spec.vars.v
\* the templates of the chain that define variable k; the one closest to the leaf
Defining(k) == {i \in 1..Len(args.chain) : k \in DOMAIN VarsOf(i)}
Closest(k) == CHOOSE i \in Defining(k) : \A j \in Defining(k) : j <= i

\* C15: the variable map collect_variables_from_chain returns holds every name
\* a template of the chain defines, each with the value given by the template
\* closest to the leaf that defines it; a dict-valued variable is replaced as
\* a whole, never merged key by key.
C15_ClosestToLeafWins ==
    CollectCalled =>
        /\ ret.t = "dict"
        /\ DOMAIN ret.v = UNION {DOMAIN VarsOf(i) : i \in 1..Len(args.chain)}
        /\ \A k \in DOMAIN ret.v : ret.v[k] = VarsOf(Closest(k))[k]

C15_Witness ==
    /\ CollectCalled
    /\ Len(args.chain) = 3
    /\ VarsOf(1) = ("n" :> PyInt(3)) @@ ("d" :> PyDict("k" :> PyInt(1)))
    /\ VarsOf(2) = ("n" :> PyInt(1))
    /\ VarsOf(3) = ("d" :> PyDict("j" :> PyInt(2))) @@ ("s" :> PyStr("x"))
    /\ ret = PyDict(("n" :> PyInt(1)) @@ ("d" :> PyDict("j" :> PyInt(2))) @@ ("s" :> PyStr("x")))

(***************************************************************************)
(* What the claims on the result of ResolutionEngine.resolve speak of.      *)
(***************************************************************************)
\* a record that carries a delete marker
Marked(r) ==
    /\ r.t = "dict"
    /\ Get(r, "action") = PyStr("delete") \/ Get(r, "_action") = PyStr("delete")
NoneMarked(resources) ==
    \A k \in DOMAIN resources.v : \A i \in 1..Len(resources.v[k].v) : ~Marked(resources.v[k].v[i])

\* C17: no resource of ResolvedConfiguration.resources and no record of
\* to_api_payload() carries a delete marker (action or _action equal to
\* "delete"), whichever template of the chain marked it, the root or the sole
\* contributor of its kind included.
C17_NoDeleteMarkerInResult ==
    pc = "done" =>
        /\ NoneMarked(resolved.resources)
        /\ NoneMarked(to_api_payload(resolved.resources))

\* the repos named name that the template lists, the tiers tier of a repo
ReposNamed(template, name) ==
    {i \in 1..Len(template.spec.repos) : template.spec.repos[i].v.name = PyStr(name)}
TiersOf(repo, tier) ==
    {i \in 1..Len(repo.v.hiddenrepopath.v) : repo.v.hiddenrepopath.v[i].v.id = PyStr(tier)}
\* the template contributes one repo of that name, not marked, with one tier of that id
ListsTier(template, name, tier) ==
    /\ Cardinality(ReposNamed(template, name)) = 1
    /\ \A i \in ReposNamed(template, name) :
          /\ template.spec.repos[i].v.action = None
          /\ Cardinality(TiersOf(template.spec.repos[i], tier)) = 1
TheTier(template, name, tier) ==
    LET repo == template.spec.repos[CHOOSE i \in ReposNamed(template, name) : TRUE]
    IN repo.v.hiddenrepopath.v[CHOOSE i \in TiersOf(repo, tier) : TRUE]
\* the elements of the resolved repo name whose identity is tier
ResolvedTiers(name, tier) ==
    LET repos == resolved.resources.v["repos"].v
        repo == repos[CHOOSE i \in 1..Len(repos) : Get(repos[i], "name") = PyStr(name)]
    IN {i \in 1..Len(repo.v["hiddenrepopath"].v) :
           LET e == repo.v["hiddenrepopath"].v[i]
           IN Get(e, "id") = PyStr(tier) \/ Get(e, "_id") = PyStr(tier)}
TheResolvedTier(name, tier) ==
    LET repos == resolved.resources.v["repos"].v
        repo == repos[CHOOSE i \in 1..Len(repos) : Get(repos[i], "name") = PyStr(name)]
    IN repo.v["hiddenrepopath"].v[CHOOSE i \in ResolvedTiers(name, tier) : TRUE]

\* C19: when two templates of the chain contribute the same repo and each
\* lists a storage tier of the same identity, the resolved repo lists exactly
\* one tier of that identity, which holds the leaf-most value of every field
\* both set and the ancestor's value of every field only the ancestor set.
C19_NestedElementMergedOnce ==
    pc = "done" =>
        \A i, j \in 1..Len(chain) :
            (/\ i < j
             /\ \A k \in 1..Len(chain) : ReposNamed(chain[k], "a") # {} <=> k \in {i, j}
             /\ ListsTier(chain[i], "a", "fast")
             /\ ListsTier(chain[j], "a", "fast"))
            => /\ Cardinality(ResolvedTiers("a", "fast")) = 1
               /\ \A f \in {"path", "retention"} :
                     LET leaf == TheTier(chain[j], "a", "fast").v[f]
                         ancestor == TheTier(chain[i], "a", "fast").v[f]
                     IN Get(TheResolvedTier("a", "fast"), f)
                           = IF leaf # None THEN leaf ELSE ancestor

(***************************************************************************)
(* What the claims on to_api_payload speak of.                               *)
(***************************************************************************)
PayloadReturned == mode = "resources" /\ args.fn = "to_api_payload" /\ pc = "returned"

\* obj holds a key that starts with "_", at some depth
RECURSIVE HasInternalKey(_)
HasInternalKey(obj) ==
    CASE obj.t = "dict" ->
            \/ DOMAIN obj.v \cap InternalKeys # {}
            \/ \E k \in DOMAIN obj.v : HasInternalKey(obj.v[k])
      [] obj.t = "list" -> \E i \in 1..Len(obj.v) : HasInternalKey(obj.v[i])
      [] OTHER -> FALSE

\* out holds the keys of obj that do not start with "_", the values and the
\* list order of obj, at every depth
RECURSIVE OthersKept(_, _)
OthersKept(obj, out) ==
    CASE obj.t = "dict" ->
            /\ out.t = "dict"
            /\ DOMAIN out.v = DOMAIN obj.v \ InternalKeys
            /\ \A k \in DOMAIN out.v : OthersKept(obj.v[k], out.v[k])
      [] obj.t = "list" ->
            /\ out.t = "list"
            /\ Len(out.v) = Len(obj.v)
            /\ \A i \in 1..Len(obj.v) : OthersKept(obj.v[i], out.v[i])
      [] OTHER -> out = obj

\* C18: the payload of to_api_payload holds no key that starts with "_" at any
\* depth, inside dicts and inside lists, keeps every other key, value and list
\* order of the resolved resources, and leaves out the kinds whose list is empty.
C18_PayloadWithoutInternalKeys ==
    PayloadReturned =>
        /\ ~HasInternalKey(ret)
        /\ DOMAIN ret.v = {k \in DOMAIN args.resources.v : args.resources.v[k].v # <<>>}
        /\ \A k \in DOMAIN ret.v : OthersKept(args.resources.v[k], ret.v[k])

C18_Witness ==
    /\ PayloadReturned
    /\ DOMAIN args.resources.v = {"repos", "routing_policies"}
    /\ args.resources.v["routing_policies"].v = <<>>
    /\ DOMAIN ret.v = {"repos"}
    /\ Len(ret.v["repos"].v) = 2
    /\ Get(args.resources.v["repos"].v[1], "name") = PyStr("b")
    /\ Get(args.resources.v["repos"].v[2], "name") = PyStr("c")
    /\ HasInternalKey(args.resources.v["repos"].v[1].v["paths"].v[3])
    /\ ret.v["repos"].v[1].v["paths"].v[3] = PyList(<<PyDict(X(2))>>)
    /\ HasInternalKey(args.resources.v["repos"].v[2].v["meta"].v["paths"])
    /\ ret.v["repos"].v[2].v["meta"] = PyDict(X(1) @@ Paths(<<EmptyDict>>))

(***************************************************************************)
(* What the claims on ConsistencyValidator speak of.                        *)
(***************************************************************************)
ValidateReturned == mode = "resources" /\ args.fn = "validate" /\ pc = "returned"
KindOf(k) == IF k \in DOMAIN args.resources.v THEN args.resources.v[k].v ELSE <<>>
CriteriaOf(rp) == IF Has(rp, "routing_criteria") THEN rp.v["routing_criteria"].v ELSE <<>>
PolicyName(rp) == IF Has(rp, "policy_name") THEN rp.v["policy_name"] ELSE PyStr("unknown")
\* a reference (a non-empty catch_all or repo) that names no merged repo
Dangling(ref) ==
    /\ Truthy(ref)
    /\ \A i \in 1..Len(KindOf("repos")) : Get(KindOf("repos")[i], "name") # ref
\* the dangling references of the routing policies: <<i>> is the catch_all of
\* policy i, <<i, j>> the repo of its criterion j
DanglingCatchAlls ==
    {<<i>> : i \in {k \in 1..Len(KindOf("routing_policies")) :
                       Dangling(Get(KindOf("routing_policies")[k], "catch_all"))}}
DanglingCriteria ==
    UNION {{<<i, j>> : j \in {k \in 1..Len(CriteriaOf(KindOf("routing_policies")[i])) :
                                Dangling(Get(CriteriaOf(KindOf("routing_policies")[i])[k], "repo"))}} :
           i \in 1..Len(KindOf("routing_policies"))}
ReferenceAt(d) ==
    IF Len(d) = 1 THEN KindOf("routing_policies")[d[1]].v["catch_all"]
    ELSE CriteriaOf(KindOf("routing_policies")[d[1]])[d[2]].v["repo"]
\* the violations returned for the routing policies, and those like e
RoutingViolations == {e \in 1..Len(ret.v) : ret.v[e].resource_type = "routing_policies"}
Like(name, field, ref) ==
    {e \in RoutingViolations :
        /\ ret.v[e].resource_name = name
        /\ ret.v[e].field = field
        /\ ret.v[e].reference = ref}

\* C20: in one call, validate returns exactly one violation for each catch_all
\* of a routing policy and each repo of a routing criterion that names no
\* repo of the merged set, none for a reference that resolves; it does not
\* stop at the first violation; each violation has its resource type, policy
\* name, field and offending reference.
C20_OneViolationPerDanglingRef ==
    ValidateReturned =>
        /\ Cardinality(RoutingViolations)
              = Cardinality(DanglingCatchAlls) + Cardinality(DanglingCriteria)
        /\ \A d \in DanglingCatchAlls :
              Cardinality(Like(PolicyName(KindOf("routing_policies")[d[1]]), "catch_all",
                               ReferenceAt(d)))
                 = Cardinality({c \in DanglingCatchAlls :
                                   /\ PolicyName(KindOf("routing_policies")[c[1]])
                                         = PolicyName(KindOf("routing_policies")[d[1]])
                                   /\ ReferenceAt(c) = ReferenceAt(d)})
        /\ \A d \in DanglingCriteria :
              Cardinality(Like(PolicyName(KindOf("routing_policies")[d[1]]),
                               "routing_criteria.repo", ReferenceAt(d)))
                 = Cardinality({c \in DanglingCriteria :
                                   /\ PolicyName(KindOf("routing_policies")[c[1]])
                                         = PolicyName(KindOf("routing_policies")[d[1]])
                                   /\ ReferenceAt(c) = ReferenceAt(d)})
        /\ \A e \in RoutingViolations :
              /\ Truthy(ret.v[e].resource_name)
              /\ Dangling(ret.v[e].reference)

C20_Witness ==
    /\ ValidateReturned
    /\ Len(KindOf("repos")) = 1
    /\ Len(KindOf("routing_policies")) = 2
    /\ DanglingCatchAlls = {<<1>>}
    /\ DanglingCriteria = {<<1, 1>>, <<2, 2>>}
    /\ Len(CriteriaOf(KindOf("routing_policies")[1])) = 2
    /\ Len(ret.v) = 3
    /\ ret.v[1].field = "catch_all" /\ ret.v[1].resource_name = PyStr("rp1")
    /\ ret.v[2].field = "routing_criteria.repo" /\ ret.v[2].reference = PyStr("z")
    /\ ret.v[3].resource_name = PyStr("rp2")

(***************************************************************************)
(* What the claims on CircularDependency speak of.                          *)
(***************************************************************************)
InChain(template) == \E i \in 1..Len(chain) : chain[i] = template

\* C30: resolve raises CircularDependency only when the walk reaches a template
\* that is already in the chain being built (two distinct templates never cause
\* it), and a node that both exceeds the maximum depth and is a revisit raises
\* CircularDependency.
C30_CircularOnlyOnRevisit ==
    /\ (ResolverRaised /\ err = Exc("CircularDependencyError")) => InChain(current)
    /\ (ResolverRaised /\ err = Exc("TemplateResolutionError")) => ~InChain(current)

(***************************************************************************)
(* core/resolver.py: _load_template and clear_cache called on the resolvers *)
(* of two engines, each cache holding what its loader stored in it; log     *)
(* keeps the calls made, in order.                                          *)
(***************************************************************************)
MaxCalls == 3

Engines == {"self", "peer"}
CachedRefs == {<<"t1">>, <<"t2">>}
CachedTemplates ==
    { ConfigTemplate("a", None, EmptySpec), ConfigTemplate("b", None, EmptySpec) }
Caches == UNION { [R -> CachedTemplates] : R \in SUBSET CachedRefs }

\* one cache for every resolver
cache_of_shared(engine) == cache

\* resolver.py 51: self._cache, a dict of the resolver's own
cache_of(engine) == IF engine = "self" THEN cache ELSE peer

InitResolvers ==
    /\ mode = "resolvers"
    /\ heap = <<>>
    /\ cache \in Caches
    /\ peer \in Caches
    /\ disk \in {{}, {<<"t2">>}}
    /\ instance = NoValue
    /\ Idle
    /\ args = NoValue
    /\ ret = NoValue

Loaded(engine, ref, template, probed) ==
    [op |-> "load", engine |-> engine, ref |-> ref, ret |-> template, probed |-> probed]
Cleared(engine) == [op |-> "clear", engine |-> engine]

\* resolver.py 120-155: engine.resolver._load_template(ref)
LoadTemplate ==
    /\ mode = "resolvers" /\ Len(log) < MaxCalls
    /\ \E engine \in Engines : \E r \in CachedRefs :
          /\ args' = [fn |-> "_load_template", engine |-> engine, ref |-> Ref(r)]
          /\ ret' = load_from(cache_of(engine), Ref(r))
          /\ log' = Append(log, Loaded(engine, Ref(r), load_from(cache_of(engine), Ref(r)),
                                       probes(cache_of(engine), Ref(r))))
    /\ UNCHANGED <<mode, heap, cache, peer, disk, instance, pc, current, seen, depth, chain,
                   variables, merged, resolved, err>>

\* resolver.py 157-159: engine.resolver.clear_cache()
ClearCache ==
    /\ mode = "resolvers" /\ Len(log) < MaxCalls
    /\ \E engine \in Engines :
          /\ args' = [fn |-> "clear_cache", engine |-> engine]
          /\ cache' = IF engine = "self" THEN <<>> ELSE cache
          /\ peer' = IF engine = "peer" THEN <<>> ELSE peer
          /\ log' = Append(log, Cleared(engine))
    /\ ret' = None
    /\ UNCHANGED <<mode, heap, disk, instance, pc, current, seen, depth, chain,
                   variables, merged, resolved, err>>

NextResolvers ==
    \/ LoadTemplate
    \/ ClearCache

SpecResolvers == InitResolvers /\ [][NextResolvers]_vars

(***************************************************************************)
(* What the claims on the template cache speak of.                          *)
(***************************************************************************)
IsLoad(i, engine, ref) ==
    log[i].op = "load" /\ log[i].engine = engine /\ log[i].ref = ref
ClearedBetween(engine, i, j) ==
    \E k \in (i + 1)..(j - 1) : log[k] = Cleared(engine)
Calls == 1..Len(log)

OrderCalled == mode = "merger" /\ args.fn = "apply_ordering_directives" /\ pc = "returned"

\* the ids of result are those of item_ids, each once
PermutationOf(result, item_ids) ==
    /\ Len(result) = Len(item_ids)
    /\ \A i \in 1..Len(item_ids) : \E j \in 1..Len(result) : result[j] = item_ids[i]

\* C28: on every list of distinct item ids and every list of directives (on absent
\* elements, with an absent reference, with the element itself as reference, with
\* a position below 1 or beyond the length) apply_ordering_directives raises
\* nothing and returns a permutation of the ids.
C28_PermutationNeverRaises ==
    OrderCalled =>
        /\ ~IsExc(ret)
        /\ PermutationOf(ret.v, args.item_ids)

(***************************************************************************)
(* What the claims on the elements without _id speak of.                    *)
(***************************************************************************)
HasIdKey(e) == e.t = "dict" /\ Has(e, "_id")
WithoutIdKey(list) == SelectSeq(list, LAMBDA e : ~HasIdKey(e))
WithIdKey(list) == SelectSeq(list, LAMBDA e : HasIdKey(e))

\* the override elements merge_list_by_id matches with nothing: primitives and
\* dicts whose _id is missing, null or empty
Unmatched(e) == e.t # "dict" \/ ~Truthy(Get(e, "_id"))
UnmatchedKept(list) ==
    SelectSeq(list, LAMBDA e : Unmatched(e) /\ ~(e.t = "dict" /\ Get(e, "_action") = PyStr("delete")))

\* the last n elements of list
LastOf(list, n) == SubSeq(list, Len(list) - n + 1, Len(list))
FirstOf(list, n) == SubSeq(list, 1, Len(list) - n)

\* C27 as claimed: in the result every element with _id precedes every element
\* without, and the elements without _id are the base's followed by the
\* override's, in their order, each one kept.
C27_AnonymousAppended ==
    ListReturned =>
        /\ ret.v = WithIdKey(ret.v) \o WithoutIdKey(ret.v)
        /\ WithoutIdKey(ret.v) = WithoutIdKey(args.base_list.v) \o WithoutIdKey(args.override_list.v)

\* C27 amended: the result ends with the base elements without _id followed by
\* the override elements that are primitives or carry no _id or an empty one and
\* no delete marker, in their order, each one kept; every element before them
\* carries an _id.
C27_AnonymousUndeletedAppended ==
    ListReturned =>
        LET anonymous == WithoutIdKey(args.base_list.v) \o UnmatchedKept(args.override_list.v)
        IN /\ Len(anonymous) <= Len(ret.v)
           /\ LastOf(ret.v, Len(anonymous)) = anonymous
           /\ FirstOf(ret.v, Len(anonymous)) = WithIdKey(FirstOf(ret.v, Len(anonymous)))

\* a base with an anonymous and an identified element; the override moves the
\* identified one, repeats the anonymous one and adds one under a delete marker
C27_Witness ==
    /\ ListReturned
    /\ args.base_list.v = <<PyDict(X(1)), PyDict(Id("a") @@ X(1))>>
    /\ args.override_list.v = <<PyDict(X(1)), PyDict(X(2) @@ Delete), PyDict(Id("a") @@ Last)>>
    /\ Len(ret.v) = 3
    /\ HasIdKey(ret.v[1])
    /\ ret.v[2] = PyDict(X(1)) /\ ret.v[3] = PyDict(X(1))

(***************************************************************************)
(* core/merger.py on objects.  The dicts and lists live in a heap, a        *)
(* sequence of cells; a dict or list is held, as an argument, a field or a  *)
(* list element, by reference Ptr(a) to cell a; a cell is a PyDict or a     *)
(* PyList of primitives and references.  Every operator takes the heap and  *)
(* gives Out(h, r): the heap it leaves and the value it returns.            *)
(***************************************************************************)
Ptr(a) == [t |-> "ptr", a |-> a]
Out(h, r) == [h |-> h, r |-> r]
IsDict(h, x) == x.t = "ptr" /\ h[x.a].t = "dict"
IsList(h, x) == x.t = "ptr" /\ h[x.a].t = "list"

\* a new object
alloc(h, cell) == Out(Append(h, cell), Ptr(Len(h) + 1))

\* the keys of a dict in the order the loops take them
KeyOrder ==
    <<"name", "policy_name", "_id", "x", "retention", "tier", "paths", "_action", "action",
      "_after", "_before", "_position", "_first", "_last">>
items(f) == SelectSeq(KeyOrder, LAMBDA k : k \in DOMAIN f)

\* the content of x: the value the references lead to
RECURSIVE Load(_, _)
Load(h, x) ==
    IF x.t # "ptr" THEN x
    ELSE IF h[x.a].t = "dict"
         THEN PyDict([k \in DOMAIN h[x.a].v |-> Load(h, h[x.a].v[k])])
         ELSE PyList([i \in 1..Len(h[x.a].v) |-> Load(h, h[x.a].v[i])])

\* new objects that hold the value x
RECURSIVE store(_, _), store_fields(_, _, _, _, _), store_elements(_, _, _, _)
\* the fields stored one after the other, then the dict that holds them
store_fields(h, f, ks, i, acc) ==
    IF i > Len(ks) THEN alloc(h, PyDict(acc))
    ELSE CHOOSE out \in {store_fields(s.h, f, ks, i + 1, (ks[i] :> s.r) @@ acc) :
                            s \in {store(h, f[ks[i]])}} : TRUE
\* the elements stored one after the other, then the list that holds them
store_elements(h, elements, i, acc) ==
    IF i > Len(elements) THEN alloc(h, PyList(acc))
    ELSE CHOOSE out \in {store_elements(s.h, elements, i + 1, Append(acc, s.r)) :
                            s \in {store(h, elements[i])}} : TRUE
store(h, x) ==
    CASE x.t = "dict" -> store_fields(h, x.v, items(x.v), 1, <<>>)
      [] x.t = "list" -> store_elements(h, x.v, 1, <<>>)
      [] OTHER -> Out(h, x)

\* copy.deepcopy(x)
deepcopy(h, x) == store(h, Load(h, x))

\* d[k] = val
setitem(h, d, k, val) == [h EXCEPT ![d.a] = PyDict((k :> val) @@ @.v)]
\* d[k] = the value s returns, unless s raised
setitem_from(s, d, k) == IF IsExc(s.r) THEN s ELSE Out(setitem(s.h, d, k, s.r), d)

\* result = base: the merge writes into the base dict
shallow_copy_alias(h, base) == Out(h, base)

\* merger.py 98: result = dict(base)
shallow_copy(h, base) == alloc(h, h[base.a])

RECURSIVE deep_merge_at(_, _, _), merge_keys_at(_, _, _, _), merge_list_by_id_at(_, _, _),
          fold_overrides_at(_, _, _)

\* merger.py 100-119: the body of the loop of deep_merge for key k
merge_key_at(h, result, k, override_val) ==
    IF override_val = None THEN Out(h, result)
    ELSE IF k \notin DOMAIN h[result.a].v
         THEN setitem_from(deepcopy(h, override_val), result, k)
    ELSE IF IsList(h, override_val) /\ IsList(h, h[result.a].v[k])
         THEN setitem_from(merge_list_by_id_at(h, h[result.a].v[k], override_val), result, k)
    ELSE IF IsDict(h, override_val) /\ IsDict(h, h[result.a].v[k])
         THEN setitem_from(deep_merge_at(h, h[result.a].v[k], override_val), result, k)
    ELSE Out(setitem(h, result, k, override_val), result)

\* the loop of deep_merge from key ks[i] on; s holds the heap and result
merge_keys_at(s, override, ks, i) ==
    IF i > Len(ks) \/ IsExc(s.r) THEN s
    ELSE merge_keys_at(merge_key_at(s.h, s.r, ks[i], s.h[override.a].v[ks[i]]),
                       override, ks, i + 1)

\* deep_merge(base, override), both references to dicts
deep_merge_at(h, base, override) ==
    merge_keys_at(shallow_copy(h, base), override, items(h[override.a].v), 1)

\* merger.py 144-151: st holds the heap h and the locals of merge_list_by_id
index_item_at(st, item) ==
    IF IsDict(st.h, item) /\ Has(st.h[item.a], "_id")
    THEN [st EXCEPT !.base_by_id = ODSet(@, st.h[item.a].v["_id"], item)]
    ELSE [st EXCEPT !.result_without_id = Append(@, item)]

RECURSIVE index_base_at(_, _, _)
index_base_at(st, base_list, i) ==
    IF i > Len(base_list) THEN st
    ELSE index_base_at(index_item_at(st, base_list[i]), base_list, i + 1)

\* result_by_id[item_id] = the value s returns, unless s raised; the heap is the one s leaves
store_merged_at(st, item_id, s) ==
    IF IsExc(s.r) THEN [st EXCEPT !.h = s.h, !.raised = s.r]
    ELSE [st EXCEPT !.h = s.h, !.result_by_id = ODSet(@, item_id, s.r)]

\* result_without_id.append(the value s returns)
append_at(st, s) == [st EXCEPT !.h = s.h, !.result_without_id = Append(@, s.r)]

\* merger.py 183-198, for a dict element
merge_or_delete_at(st, item, item_id, action) ==
    IF Truthy(item_id) /\ ODHas(st.base_by_id, item_id)
    THEN IF action = PyStr("delete")
         THEN [st EXCEPT !.result_by_id = ODPop(@, item_id)]
         ELSE store_merged_at(st, item_id,
                              deep_merge_at(st.h, ODGet(st.base_by_id, item_id), item))
    ELSE IF action # PyStr("delete")
         THEN IF Truthy(item_id)
              THEN store_merged_at(st, item_id, deepcopy(st.h, item))
              ELSE append_at(st, deepcopy(st.h, item))
         ELSE st

\* merger.py 161-198: the body of the loop over override_list
override_step_at(st, item) ==
    IF ~IsDict(st.h, item)
    THEN [st EXCEPT !.result_without_id = Append(@, item)]
    ELSE merge_or_delete_at(
            [st EXCEPT !.ordering_directives =
                          @ \o item_directives(st.h[item.a], Get(st.h[item.a], "_id"))],
            item, Get(st.h[item.a], "_id"), Get(st.h[item.a], "_action"))

fold_overrides_at(st, override_list, i) ==
    IF i > Len(override_list) \/ IsExc(st.raised) THEN st
    ELSE fold_overrides_at(override_step_at(st, override_list[i]), override_list, i + 1)

\* merger.py 206-215: the list returned, a new object
reconstruct_at(st, final_order) ==
    IF IsExc(final_order) THEN Out(st.h, final_order)
    ELSE alloc(st.h, PyList([i \in 1..Len(final_order.v) |->
                                 ODGet(st.result_by_id, final_order.v[i])]
                            \o st.result_without_id))

order_and_reconstruct_at(st) ==
    IF IsExc(st.raised) THEN Out(st.h, st.raised)
    ELSE reconstruct_at(st, apply_ordering_directives(ODKeys(st.result_by_id),
                                                      st.ordering_directives))

\* merge_list_by_id(base_list, override_list), both references to lists
merge_list_by_id_at(h, base_list, override_list) ==
    order_and_reconstruct_at(
        fold_overrides_at(
            copy_base(index_base_at([h |-> h, base_by_id |-> <<>>, result_by_id |-> <<>>,
                                     result_without_id |-> <<>>, ordering_directives |-> <<>>,
                                     raised |-> NoValue],
                                    h[base_list.a].v, 1)),
            h[override_list.a].v, 1))

RECURSIVE index_resources_at(_, _, _, _)
\* merger.py 55-59
index_resources_at(h, result, base_list, i) ==
    IF i > Len(base_list) THEN result
    ELSE index_resources_at(h, index_resource(result, base_list[i],
                                              get_resource_name(h[base_list[i].a])),
                            base_list, i + 1)

\* result[name] = the value s returns, unless s raised
store_resource_at(st, name, s) ==
    IF IsExc(s.r) THEN [st EXCEPT !.h = s.h, !.raised = s.r]
    ELSE [st EXCEPT !.h = s.h, !.result = ODSet(@, name, s.r)]

\* merger.py 61-76: the body of the loop over override_list
resource_step_at(st, resource, cell, name) ==
    IF name = None THEN [st EXCEPT !.raised = Exc("MergeError")]
    ELSE IF Get(cell, "action") = PyStr("delete") \/ Get(cell, "_action") = PyStr("delete")
         THEN [st EXCEPT !.result = ODPop(@, name)]
    ELSE IF ODHas(st.result, name)
         THEN store_resource_at(st, name, deep_merge_at(st.h, ODGet(st.result, name), resource))
    ELSE store_resource_at(st, name, deepcopy(st.h, resource))

RECURSIVE fold_resources_at(_, _, _)
fold_resources_at(st, override_list, i) ==
    IF i > Len(override_list) \/ IsExc(st.raised) THEN st
    ELSE fold_resources_at(
            resource_step_at(st, override_list[i], st.h[override_list[i].a],
                             get_resource_name(st.h[override_list[i].a])),
            override_list, i + 1)

\* merger.py 78: list(result.values()), a new object
resource_values_at(st) ==
    IF IsExc(st.raised) THEN Out(st.h, st.raised)
    ELSE alloc(st.h, PyList(ODValues(st.result)))

\* merge_resources(base_list, override_list), both references to lists of dicts
merge_resources_at(h, base_list, override_list) ==
    resource_values_at(
        fold_resources_at([h |-> h,
                           result |-> index_resources_at(h, <<>>, h[base_list.a].v, 1),
                           raised |-> NoValue],
                          h[override_list.a].v, 1))

(***************************************************************************)
(* merge_resources, merge_list_by_id and deep_merge called twice on the     *)
(* same objects; log keeps the content of what each call returned.          *)
(***************************************************************************)
MaxArgs == 2     \* longest base_list and override_list of these calls

Tiers(value) == "tier" :> value

ObjectBaseResources ==
    { PyDict(Name("a") @@ Retention(1)),
      PyDict(Name("a") @@ Paths(<<PyDict(Id("p") @@ X(1)), PyDict(X(1))>>)),
      PyDict(Name("b") @@ Tiers(PyDict(X(1)))) }

ObjectOverrideResources ==
    { PyDict(Name("a") @@ Retention(2)),
      PyDict(Name("a") @@ Delete),
      PyDict(Name("c") @@ Paths(<<PyInt(7)>>)),
      PyDict(Name("a") @@ Paths(<<PyDict(Id("p") @@ X(2) @@ Last), PyDict(Id("r") @@ X(2))>>)),
      PyDict(Name("a") @@ Paths(<<PyDict(Id("p") @@ Delete), PyDict(X(2))>>)),
      PyDict(Name("b") @@ Tiers(PyDict(X(2) @@ Retention(3)))),
      PyDict(Name("b") @@ Tiers(PyList(<<PyInt(7)>>))) }

ObjectBaseElements ==
    { PyDict(Id("a") @@ X(1)), PyDict(Id("b") @@ Tiers(PyDict(X(1)))), PyDict(X(1)),
      PyList(<<PyInt(5)>>) }

ObjectOverrideElements ==
    { PyDict(Id("a") @@ X(2) @@ Last), PyDict(Id("a") @@ Delete), PyDict(Id("n") @@ X(2)),
      PyDict(Id("b") @@ Tiers(PyDict(Retention(3)))), PyDict(Id("b") @@ Before("b")),
      PyDict(X(2)), PyList(<<PyInt(7)>>) }

\* the call: the arguments as references into the heap that holds them, and
\* their content when the call is made
stored_call(fn, sb, so, base, override) ==
    [heap |-> so.h,
     args |-> [fn |-> fn, base |-> sb.r, override |-> so.r, content |-> <<base, override>>]]
call_on(fn, base, override) ==
    stored_call(fn, store(<<>>, base), store(store(<<>>, base).h, override), base, override)

\* the interpreter holds the arguments of the call and nothing else
Holding(call) == heap = call.heap /\ args = call.args

InitMergeResourcesOfObjects ==
    \E base \in DistinctListsOf(ObjectBaseResources, MaxArgs) :
    \E override \in ListsOf(ObjectOverrideResources, MaxArgs) :
        Holding(call_on("merge_resources", PyList(base), PyList(override)))

InitMergeListByIdOfObjects ==
    \E base \in DistinctListsOf(ObjectBaseElements, MaxArgs) :
    \E override \in ListsOf(ObjectOverrideElements, MaxArgs) :
        Holding(call_on("merge_list_by_id", PyList(base), PyList(override)))

InitDeepMergeOfObjects ==
    \E base \in ObjectBaseResources : \E override \in ObjectOverrideResources :
        Holding(call_on("deep_merge", base, override))

InitObjects ==
    /\ mode = "objects"
    /\ \/ InitMergeResourcesOfObjects
       \/ InitMergeListByIdOfObjects
       \/ InitDeepMergeOfObjects
    /\ cache = <<>>
    /\ peer = <<>>
    /\ disk = {}
    /\ instance = NoValue
    /\ Idle
    /\ ret = NoValue

\* the call returns (or raises) s.r and leaves the heap s.h
Returned(s) ==
    /\ heap' = s.h
    /\ ret' = s.r
    /\ log' = Append(log, Load(s.h, s.r))
    /\ pc' = IF pc = "idle" THEN "returned" ELSE "reapplied"
    /\ UNCHANGED <<mode, cache, peer, disk, instance, current, seen, depth, chain,
                   variables, merged, resolved, err, args>>

\* merge_resources(base_list, override_list), the first and the second time
MergeResourcesOfObjects ==
    /\ mode = "objects" /\ pc \in {"idle", "returned"} /\ args.fn = "merge_resources"
    /\ Returned(merge_resources_at(heap, args.base, args.override))

\* merge_list_by_id(base_list, override_list), the first and the second time
MergeListByIdOfObjects ==
    /\ mode = "objects" /\ pc \in {"idle", "returned"} /\ args.fn = "merge_list_by_id"
    /\ Returned(merge_list_by_id_at(heap, args.base, args.override))

\* deep_merge(base, override), the first and the second time
DeepMergeOfObjects ==
    /\ mode = "objects" /\ pc \in {"idle", "returned"} /\ args.fn = "deep_merge"
    /\ Returned(deep_merge_at(heap, args.base, args.override))

NextObjects ==
    \/ MergeResourcesOfObjects
    \/ MergeListByIdOfObjects
    \/ DeepMergeOfObjects

SpecObjects == InitObjects /\ [][NextObjects]_vars

(***************************************************************************)
(* What the claims on the arguments of the merge functions speak of.        *)
(***************************************************************************)
ObjectsCalled == mode = "objects" /\ pc \in {"returned", "reapplied"}

\* the content the call would return were the merge computed on values
ValueMerged ==
    CASE args.fn = "merge_resources" -> merge_resources(args.content[1], args.content[2])
      [] args.fn = "merge_list_by_id" -> merge_list_by_id(args.content[1], args.content[2])
      [] OTHER -> deep_merge(args.content[1], args.content[2])

\* C29: after a call of merge_resources, deep_merge or merge_list_by_id the base
\* and the override, with every dict and list nested in them, hold the content
\* they held before, and a second call on the same arguments returns the same
\* content as the first.
C29_ArgumentsUnchanged ==
    ObjectsCalled =>
        /\ Load(heap, args.base) = args.content[1]
        /\ Load(heap, args.override) = args.content[2]
        /\ \A i \in 1..Len(log) : log[i] = log[1]
        /\ log[1] = ValueMerged

\* a nested list of the base resource was merged with one of the override, twice
C29_Witness ==
    /\ ObjectsCalled /\ pc = "reapplied"
    /\ args.fn = "merge_resources"
    /\ args.content[1] = PyList(<<PyDict(Name("a") @@ Paths(<<PyDict(Id("p") @@ X(1)), PyDict(X(1))>>))>>)
    /\ Len(args.content[2].v) = 1
    /\ ~IsExc(ret)
    /\ Len(log) = 2
    /\ log[2].v[1].v["paths"] = PyList(<<PyDict(Id("r") @@ X(2)), PyDict(Id("p") @@ X(2) @@ Last), PyDict(X(1))>>)


(***************************************************************************)
(* cli/main.py plan: ResolutionEngine.resolve on templates that carry       *)
(* routing and processing policies, ConsistencyValidator.validate on the    *)
(* resources of the configuration resolved.                                 *)
(***************************************************************************)
\* models/routing.py RoutingPolicy
RoutingPolicyModel(policy_name, id, catch_all) ==
    Model("RoutingPolicy",
          [policy_name |-> PyStr(policy_name), id |-> PyStr(id), catch_all |-> PyStr(catch_all),
           routing_criteria |-> PyList(<<>>), action |-> None])

\* models/processing.py ProcessingPolicy
ProcessingPolicyModel(name, id, routing_policy) ==
    Model("ProcessingPolicy",
          [name |-> PyStr(name), id |-> PyStr(id), routing_policy |-> PyStr(routing_policy),
           normalization_policy |-> None, enrichment_policy |-> None, description |-> None,
           enabled |-> PyBool(TRUE), action |-> None])

\* models/template.py TemplateSpec with policies
TemplateSpecOf(vs, repos, routing_policies, processing_policies) ==
    [vars |-> vs, repos |-> repos, routing_policies |-> routing_policies,
     processing_policies |-> processing_policies]

\* templates whose processing policies name a routing policy of the same
\* template ("rp1"), of another template ("rp2") or of none ("rpz")
PolicySpecSet ==
    { EmptySpec,
      TemplateSpecOf(EmptyDict, <<Repo("a", <<>>, None)>>,
                     <<RoutingPolicyModel("rp1", "r1", "a")>>,
                     <<ProcessingPolicyModel("pp", "p1", "rp1")>>),
      TemplateSpecOf(EmptyDict, <<>>, <<RoutingPolicyModel("rp2", "r2", "a")>>,
                     <<ProcessingPolicyModel("pq", "p2", "rp1")>>),
      TemplateSpecOf(EmptyDict, <<>>, <<>>, <<ProcessingPolicyModel("pp", "p1", "rpz")>>),
      TemplateSpecOf(EmptyDict, <<>>, <<>>,
                     <<ProcessingPolicyModel("pp", "p1", "rp2"),
                       ProcessingPolicyModel("pr", "p3", "rpz")>>) }

InitPolicies ==
    \E L \in 0..MaxContent : \E tail \in Tails(L) \ {Target("ondisk", 0)} :
    \E specs \in [0..L -> PolicySpecSet] :
        /\ cache = StoreOf(L, tail, <<0, 0>>, FALSE, specs)
        /\ instance = InstanceOf(L, tail, FALSE, specs)

InitPlan ==
    /\ mode = "engine"
    /\ heap = <<>>
    /\ peer = <<>>
    /\ disk = {<<"ondisk">>}
    /\ InitPolicies
    /\ Idle
    /\ args = NoValue
    /\ ret = NoValue

\* cli/main.py 287-288: ConsistencyValidator(resolved.resources).validate()
ValidateResolved ==
    /\ mode = "engine" /\ pc = "done"
    /\ ret' = validate(resolved.resources)
    /\ pc' = "validated"
    /\ log' = Append(log, "validate")
    /\ UNCHANGED <<mode, heap, cache, peer, disk, instance, current, seen, depth, chain,
                   variables, merged, resolved, err, args>>

NextPlan ==
    \/ ResolveCall
    \/ ResolverLoop
    \/ CollectVariables
    \/ MergeChainResources
    \/ InterpolateAndReturn
    \/ ValidateResolved

SpecPlan == InitPlan /\ [][NextPlan]_vars

\* the routing policy a processing policy of the resolved resources refers to
RoutingPolicyRef(pp) ==
    IF "routing_policy" \in DOMAIN pp.v THEN pp.v["routing_policy"] ELSE Get(pp, "routingPolicy")

\* the names of the routing policies of the resolved resources
MergedRoutingPolicyNames ==
    LET rps == resources_of(resolved.resources, "routing_policies")
    IN {Get(rps[i], "policy_name") : i \in 1..Len(rps)}

\* the processing policies of the resolved resources whose reference names no
\* routing policy of the resolved resources
DanglingPolicies ==
    LET pps == resources_of(resolved.resources, "processing_policies")
    IN {pps[i] : i \in {j \in 1..Len(pps) :
                           /\ Truthy(RoutingPolicyRef(pps[j]))
                           /\ RoutingPolicyRef(pps[j]) \notin MergedRoutingPolicyNames}}

Reported(pp) ==
    \E i \in 1..Len(ret.v) :
        /\ ret.v[i].resource_type = "processing_policies"
        /\ ret.v[i].resource_name = Get(pp, "name")
        /\ ret.v[i].reference = RoutingPolicyRef(pp)

\* C21: when the validator has run on the resources resolve returned, every
\* processing policy whose routing-policy reference names no routing policy of
\* the merged set is among the violations reported
C21_DanglingPolicyReported ==
    (mode = "engine" /\ pc = "validated") => \A pp \in DanglingPolicies : Reported(pp)


(***************************************************************************)
(* core/logpoint_dependencies.py LogPointDependencyValidator                *)
(***************************************************************************)
\* lines 35-43: DependencyError
DependencyError(resource_type, resource_name, depends_on, missing_ref, severity, message) ==
    [resource_type |-> resource_type, resource_name |-> resource_name,
     depends_on |-> depends_on, missing_ref |-> missing_ref, severity |-> severity,
     message |-> message]

\* line 42: the severity of a DependencyError built without one
DefaultSeverity == "ERROR"

\* an entry of DEPENDENCIES: the field is the dotted path, split at the dots
Entry(kind, field, target) == [kind |-> kind, field |-> field, target |-> target]

\* lines 60-83
DEPENDENCIES ==
    { Entry("routing_policies", <<"catch_all">>, "repos"),
      Entry("routing_policies", <<"routing_criteria", "*", "repo">>, "repos"),
      Entry("enrichment_policies", <<"sources", "*", "source">>, "enrichment_sources"),
      Entry("processing_policies", <<"routingPolicy">>, "routing_policies"),
      Entry("processing_policies", <<"normalizationPolicy">>, "normalization_policies"),
      Entry("processing_policies", <<"enrichmentPolicy">>, "enrichment_policies"),
      Entry("devices", <<"processingPolicy">>, "processing_policies"),
      Entry("devices", <<"deviceGroup">>, "device_groups"),
      Entry("syslog_collectors", <<"devices", "*">>, "devices"),
      Entry("alert_rules", <<"repos", "*">>, "repos") }

\* lines 100-111, 114: name_fields.get(resource_type, "name")
name_field_of(resource_type) ==
    IF resource_type = "routing_policies" THEN "policy_name" ELSE "name"

\* a or b
PyOr(a, b) == IF Truthy(a) THEN a ELSE b

\* line 116
index_name(item, name_field) ==
    PyOr(PyOr(Get(item, name_field), Get(item, "name")), Get(item, "policy_name"))

\* lines 98-119: _build_indexes, the dict self._indexes
build_indexes(resources) ==
    [resource_type \in DOMAIN resources.v |->
        {index_name(resources.v[resource_type].v[i], name_field_of(resource_type)) :
            i \in {j \in 1..Len(resources.v[resource_type].v) :
                      Truthy(resources.v[resource_type].v[j])}}]

\* lines 85-96: LogPointDependencyValidator(resources)
Validator(id, resources) ==
    [id |-> id, resources |-> resources, errors |-> <<>>, indexes |-> build_indexes(resources)]

\* lines 248-250: self._exists(resource_type, name)
exists(self, resource_type, name) ==
    resource_type \in DOMAIN self.indexes /\ name \in self.indexes[resource_type]

\* 'if ref and not self._exists(...): self.errors.append(DependencyError(...))'
missing(self, resource_type, resource_name, depends_on, ref, severity, text, rest) ==
    IF Truthy(ref) /\ ~exists(self, depends_on, ref)
    THEN <<DependencyError(resource_type, resource_name, depends_on, ref, severity,
                           text \o ref.v \o rest)>>
    ELSE <<>>

\* lines 153-162: the errors of the criteria of one routing policy, from criterion i on
RECURSIVE criteria_missing(_, _, _, _)
criteria_missing(self, rp_name, criteria, i) ==
    IF i > Len(criteria) THEN <<>>
    ELSE missing(self, "routing_policies", rp_name, "repos", Get(criteria[i], "repo"),
                 DefaultSeverity, "routing_criterion references non-existent repo: ", "")
         \o criteria_missing(self, rp_name, criteria, i + 1)

\* lines 139-162: the errors of one routing policy
routing_policy_missing(self, rp, rp_name) ==
    missing(self, "routing_policies", rp_name, "repos", Get(rp, "catch_all"),
            DefaultSeverity, "catch_all references non-existent repo: ", "")
    \o criteria_missing(self, rp_name, GetOr(rp, "routing_criteria", PyList(<<>>)).v, 1)

\* lines 136-162: _validate_routing_policies, from policy i on
RECURSIVE dep_validate_routing_policies(_, _, _)
dep_validate_routing_policies(self, rps, i) ==
    IF i > Len(rps) THEN <<>>
    ELSE routing_policy_missing(self, rps[i], GetOr(rps[i], "policy_name", PyStr("unknown")))
         \o dep_validate_routing_policies(self, rps, i + 1)

\* lines 167-202: the errors of one processing policy
processing_policy_missing(self, pp, pp_name) ==
    missing(self, "processing_policies", pp_name, "routing_policies", Get(pp, "routingPolicy"),
            DefaultSeverity, "routingPolicy references non-existent routing policy: ", "")
    \o missing(self, "processing_policies", pp_name, "normalization_policies",
               Get(pp, "normalizationPolicy"), "WARNING",
               "normalizationPolicy references non-existent policy: ", " (will use Auto)")
    \o missing(self, "processing_policies", pp_name, "enrichment_policies",
               Get(pp, "enrichmentPolicy"), "WARNING",
               "enrichmentPolicy references non-existent policy: ", "")

\* lines 164-202: _validate_processing_policies, from policy i on
RECURSIVE dep_validate_processing_policies(_, _, _)
dep_validate_processing_policies(self, pps, i) ==
    IF i > Len(pps) THEN <<>>
    ELSE processing_policy_missing(self, pps[i], GetOr(pps[i], "name", PyStr("unknown")))
         \o dep_validate_processing_policies(self, pps, i + 1)

\* lines 207-229: the errors of one device
device_missing(self, device, device_name) ==
    missing(self, "devices", device_name, "processing_policies",
            Get(device, "processingPolicy"), DefaultSeverity,
            "processingPolicy references non-existent policy: ", "")
    \o missing(self, "devices", device_name, "device_groups", Get(device, "deviceGroup"),
               DefaultSeverity, "deviceGroup references non-existent group: ", "")

\* lines 204-229: _validate_devices, from device i on
RECURSIVE validate_devices(_, _, _)
validate_devices(self, devices, i) ==
    IF i > Len(devices) THEN <<>>
    ELSE device_missing(self, devices[i], GetOr(devices[i], "name", PyStr("unknown")))
         \o validate_devices(self, devices, i + 1)

\* lines 237-246: the errors of the repos of one alert rule, from repo i on
RECURSIVE alert_repos_missing(_, _, _, _)
alert_repos_missing(self, alert_name, repos, i) ==
    IF i > Len(repos) THEN <<>>
    ELSE (IF ~exists(self, "repos", repos[i])
          THEN <<DependencyError("alert_rules", alert_name, "repos", repos[i], DefaultSeverity,
                                 "alert references non-existent repo: " \o repos[i].v)>>
          ELSE <<>>)
         \o alert_repos_missing(self, alert_name, repos, i + 1)

\* lines 231-246: _validate_alert_rules, from rule i on
RECURSIVE validate_alert_rules(_, _, _)
validate_alert_rules(self, alerts, i) ==
    IF i > Len(alerts) THEN <<>>
    ELSE alert_repos_missing(self, GetOr(alerts[i], "name", PyStr("unknown")),
                             GetOr(alerts[i], "repos", PyList(<<>>)).v, 1)
         \o validate_alert_rules(self, alerts, i + 1)

\* lines 121-134: validate(), the list self.errors
dep_validate(self) ==
    dep_validate_routing_policies(self, resources_of(self.resources, "routing_policies"), 1)
    \o dep_validate_processing_policies(
           self, resources_of(self.resources, "processing_policies"), 1)
    \o validate_devices(self, resources_of(self.resources, "devices"), 1)
    \o validate_alert_rules(self, resources_of(self.resources, "alert_rules"), 1)

\* lines 271-274: is_valid(), given the list validate() returned
no_error_among(errors) == ~\E i \in 1..Len(errors) : errors[i].severity = "ERROR"

\* the devices deployed before the policies they refer to
get_deployment_order_devices_early ==
    <<"repos", "device_groups", "normalization_policies", "enrichment_sources",
      "routing_policies", "enrichment_policies", "devices", "processing_policies",
      "syslog_collectors", "alert_rules">>

\* lines 252-269: get_deployment_order()
get_deployment_order ==
    <<"repos", "device_groups", "normalization_policies", "enrichment_sources",
      "routing_policies", "enrichment_policies", "processing_policies", "devices",
      "syslog_collectors", "alert_rules">>


(***************************************************************************)
(* LogPointDependencyValidator built on bounded resources and called:       *)
(* validate, is_valid, get_deployment_order.                                *)
(***************************************************************************)
MaxDangling == 2     \* most references of a deployment that name nothing

\* the references of a deployment, one per entry of the dependency graph
Slots ==
    {"catch_all", "criterion", "source", "routingPolicy", "normalizationPolicy",
     "enrichmentPolicy", "processingPolicy", "deviceGroup", "collector", "alert"}

\* the reference of a slot: the resource that exists, or "z", which never does
Reference(dangling, slot, target) == PyStr(IF slot \in dangling THEN "z" ELSE target)

\* one resource of every kind, the references in dangling naming nothing
Deployment(dangling) ==
    PyDict(("repos" :> PyList(<<PyDict(Name("a"))>>))
        @@ ("device_groups" :> PyList(<<PyDict(Name("dg"))>>))
        @@ ("normalization_policies" :> PyList(<<PyDict(Name("np"))>>))
        @@ ("enrichment_sources" :> PyList(<<PyDict(Name("es"))>>))
        @@ ("routing_policies" :> PyList(
               <<PyDict(("policy_name" :> PyStr("rp"))
                        @@ ("catch_all" :> Reference(dangling, "catch_all", "a"))
                        @@ ("routing_criteria" :> PyList(
                               <<PyDict("repo" :> Reference(dangling, "criterion", "a"))>>)))>>))
        @@ ("enrichment_policies" :> PyList(
               <<PyDict(Name("ep")
                        @@ ("sources" :> PyList(
                               <<PyDict("source" :> Reference(dangling, "source", "es"))>>)))>>))
        @@ ("processing_policies" :> PyList(
               <<PyDict(Name("pp")
                        @@ ("routingPolicy" :> Reference(dangling, "routingPolicy", "rp"))
                        @@ ("normalizationPolicy"
                               :> Reference(dangling, "normalizationPolicy", "np"))
                        @@ ("enrichmentPolicy"
                               :> Reference(dangling, "enrichmentPolicy", "ep")))>>))
        @@ ("devices" :> PyList(
               <<PyDict(Name("dev")
                        @@ ("processingPolicy" :> Reference(dangling, "processingPolicy", "pp"))
                        @@ ("deviceGroup" :> Reference(dangling, "deviceGroup", "dg")))>>))
        @@ ("syslog_collectors" :> PyList(
               <<PyDict(Name("sc")
                        @@ ("devices" :> PyList(<<Reference(dangling, "collector", "dev")>>)))>>))
        @@ ("alert_rules" :> PyList(
               <<PyDict(Name("al")
                        @@ ("repos" :> PyList(<<Reference(dangling, "alert", "a")>>)))>>)))

\* deployments out of the ordinary: no resources, the resolved kinds only with
\* the optional references left out, a kind referred to and absent, an empty
\* reference and an empty resource, resources without name
OddDeployments ==
    { EmptyDict,
      PyDict(("repos" :> PyList(<<PyDict(Name("a"))>>))
          @@ ("routing_policies" :> PyList(
                 <<PyDict(("policy_name" :> PyStr("rp")) @@ ("catch_all" :> PyStr("a")))>>))
          @@ ("processing_policies" :> PyList(
                 <<PyDict(Name("pp") @@ ("routingPolicy" :> PyStr("rp")))>>))),
      PyDict(("devices" :> PyList(
                 <<PyDict(Name("dev") @@ ("processingPolicy" :> PyStr("pp")))>>))
          @@ ("alert_rules" :> PyList(<<PyDict(Name("al"))>>))),
      PyDict(("repos" :> PyList(<<EmptyDict, PyDict(Name("a"))>>))
          @@ ("routing_policies" :> PyList(
                 <<PyDict(("policy_name" :> PyStr("rp")) @@ ("catch_all" :> PyStr(""))
                          @@ ("routing_criteria" :> PyList(<<EmptyDict>>)))>>))),
      PyDict(("routing_policies" :> PyList(<<PyDict("catch_all" :> PyStr("z"))>>))
          @@ ("processing_policies" :> PyList(
                 <<PyDict("routingPolicy" :> PyStr("rp")),
                   PyDict(Name("pq") @@ ("enrichmentPolicy" :> PyStr("ep")))>>))
          @@ ("devices" :> PyList(<<PyDict("deviceGroup" :> PyStr("dg"))>>))) }

Deployments ==
    {Deployment(dangling) : dangling \in {D \in SUBSET Slots : Cardinality(D) <= MaxDangling}}
    \cup OddDeployments

InitDependencies ==
    /\ mode = "dependencies"
    /\ NoEngine
    /\ \E resources \in Deployments : args = Validator(1, resources)
    /\ ret = NoValue

Answer(fn, v) == [fn |-> fn, v |-> v]
Ordered(validator, order) == [validator |-> validator, order |-> order]

\* lines 85-96: another validator is built
NewValidator ==
    /\ mode = "dependencies" /\ args.id < MaxCalls
    /\ \E resources \in Deployments : args' = Validator(args.id + 1, resources)
    /\ pc' = "idle"
    /\ ret' = NoValue
    /\ UNCHANGED <<mode, heap, cache, peer, disk, instance, current, seen, depth, chain,
                   variables, merged, resolved, err, log>>

\* lines 121-134: validator.validate()
ValidateDependencies ==
    /\ mode = "dependencies"
    /\ args' = [args EXCEPT !.errors = dep_validate(args)]
    /\ ret' = Answer("validate", PyList(dep_validate(args)))
    /\ pc' = "returned"
    /\ UNCHANGED <<mode, heap, cache, peer, disk, instance, current, seen, depth, chain,
                   variables, merged, resolved, err, log>>

\* lines 271-274: validator.is_valid()
IsValid ==
    /\ mode = "dependencies"
    /\ args' = [args EXCEPT !.errors = dep_validate(args)]
    /\ ret' = Answer("is_valid", PyBool(no_error_among(dep_validate(args))))
    /\ pc' = "returned"
    /\ UNCHANGED <<mode, heap, cache, peer, disk, instance, current, seen, depth, chain,
                   variables, merged, resolved, err, log>>

\* lines 252-269: validator.get_deployment_order()
GetDeploymentOrder ==
    /\ mode = "dependencies" /\ Len(log) < MaxCalls
    /\ ret' = Answer("get_deployment_order", PyList(get_deployment_order))
    /\ log' = Append(log, Ordered(args.id, get_deployment_order))
    /\ pc' = "returned"
    /\ UNCHANGED <<mode, heap, cache, peer, disk, instance, current, seen, depth, chain,
                   variables, merged, resolved, err, args>>

NextDependencies ==
    \/ NewValidator
    \/ ValidateDependencies
    \/ IsValid
    \/ GetDeploymentOrder

SpecDependencies == InitDependencies /\ [][NextDependencies]_vars

DependenciesReturned(fn) == mode = "dependencies" /\ pc = "returned" /\ ret.fn = fn

\* the required references of the claim: a routing policy's repos, a
\* processing policy's routingPolicy
RequiredReference(e) ==
    \/ e.resource_type = "routing_policies" /\ e.depends_on = "repos"
    \/ e.resource_type = "processing_policies" /\ e.depends_on = "routing_policies"

\* the optional references of the claim: a processing policy's
\* normalizationPolicy and enrichmentPolicy, a device's processingPolicy and
\* deviceGroup
OptionalReference(e) ==
    \/ /\ e.resource_type = "processing_policies"
       /\ e.depends_on \in {"normalization_policies", "enrichment_policies"}
    \/ /\ e.resource_type = "devices"
       /\ e.depends_on \in {"processing_policies", "device_groups"}

\* C22: every error validate returns has severity ERROR when its reference is
\* a required one and WARNING when it is an optional one, and is_valid returns
\* true exactly when validate finds no error of severity ERROR
C22_SeverityByRequirement ==
    /\ DependenciesReturned("validate") =>
          \A i \in 1..Len(ret.v.v) :
              /\ RequiredReference(ret.v.v[i]) => ret.v.v[i].severity = "ERROR"
              /\ OptionalReference(ret.v.v[i]) => ret.v.v[i].severity = "WARNING"
    /\ DependenciesReturned("is_valid") =>
          (ret.v = PyBool(TRUE)
              <=> ~\E i \in 1..Len(args.errors) : args.errors[i].severity = "ERROR")

\* the values a dotted path leads to in a resource, "*" standing for every
\* element of a list
RECURSIVE values_at(_, _)
values_at(obj, path) ==
    IF path = <<>> THEN {obj}
    ELSE IF Head(path) = "*"
         THEN IF obj.t = "list"
              THEN UNION {values_at(obj.v[i], Tail(path)) : i \in 1..Len(obj.v)}
              ELSE {}
         ELSE IF obj.t = "dict" /\ Head(path) \in DOMAIN obj.v
              THEN values_at(obj.v[Head(path)], Tail(path))
              ELSE {}

\* the references of a resource under an entry of the graph that name no
\* resource of the target kind
DanglingReferences(resource, entry) ==
    {ref \in values_at(resource, entry.field) :
        Truthy(ref) /\ ~exists(args, entry.target, ref)}

DependencyReported(errors, entry, resource, ref) ==
    \E i \in 1..Len(errors) :
        /\ errors[i].resource_type = entry.kind
        /\ errors[i].resource_name
              = GetOr(resource, name_field_of(entry.kind), PyStr("unknown"))
        /\ errors[i].depends_on = entry.target
        /\ errors[i].missing_ref = ref

\* C23: for every entry of DEPENDENCIES, every reference of a resource of the
\* entry's kind that names no resource of the target kind is among the errors
\* one call of validate returns
C23_EveryEntryValidated ==
    DependenciesReturned("validate") =>
        \A entry \in DEPENDENCIES :
        \A i \in 1..Len(resources_of(args.resources, entry.kind)) :
        \A ref \in DanglingReferences(resources_of(args.resources, entry.kind)[i], entry) :
            DependencyReported(ret.v.v, entry,
                               resources_of(args.resources, entry.kind)[i], ref)

\* the kinds the dependency graph mentions
GraphKinds == {entry.kind : entry \in DEPENDENCIES} \cup {entry.target : entry \in DEPENDENCIES}
Positions(order, kind) == {i \in 1..Len(order) : order[i] = kind}

\* C24: the order get_deployment_order returns lists every kind of the
\* dependency graph exactly once, puts the target of every entry of the graph
\* strictly before the kind that refers to it, and is the order every earlier
\* call returned, whatever validator and resources it was called on
C24_DeploymentOrderTopological ==
    DependenciesReturned("get_deployment_order") =>
        /\ \A kind \in GraphKinds : Cardinality(Positions(ret.v.v, kind)) = 1
        /\ \A entry \in DEPENDENCIES :
           \A i \in Positions(ret.v.v, entry.target) :
           \A j \in Positions(ret.v.v, entry.kind) : i < j
        /\ \A i \in 1..Len(log) : log[i].order = ret.v.v

C24_Witness ==
    /\ DependenciesReturned("get_deployment_order")
    /\ Len(log) = 2
    /\ log[1].validator = 1 /\ log[2].validator = 2
    /\ args.resources = Deployment({"processingPolicy", "collector"})
    /\ args.errors # <<>>


(***************************************************************************)
(* providers/director.py DirectorProvider: connect, disconnect,             *)
(* health_check and get_resources called one after the other on one         *)
(* provider, the Director answering each request or failing to.             *)
(***************************************************************************)
\* what 'await self._client.get(url)' ends in: a response with its status
\* code, or an exception of httpx when the Director cannot be reached
Response(status_code) == [t |-> "response", status_code |-> status_code]
Requests ==
    {Response(200), Response(401), Response(500),
     Exc("ConnectError"), Exc("ConnectTimeout")}

\* DirectorConfig
Configs ==
    {[api_host |-> "https://director", credentials |-> c, pool_uuid |-> "pool"] :
        c \in {"tok", "Bearer tok", "bearer tok"}}

\* the credentials c with c.lower().startswith("bearer ")
BearerCredentials == {"Bearer tok", "bearer tok"}

\* lines 137-148: _format_auth_header(credentials)
format_auth_header(credentials) ==
    IF credentials \in BearerCredentials THEN credentials ELSE "Bearer " \o credentials

\* lines 78-88: DirectorProvider(config)
DirectorProvider(config) == [config |-> config, client |-> None, base_url |-> ""]

\* lines 109-122: the base URL built and the HTTP client created
with_client(self) ==
    [self EXCEPT !.base_url = self.config.api_host \o "/configapi/" \o self.config.pool_uuid,
                 !.client = [t |-> "client",
                             Authorization |-> format_auth_header(self.config.credentials)]]

\* lines 131-135: disconnect()
disconnect(self) == [self EXCEPT !.client = None]

\* lines 345-356: health_check(), the request ending in request
health_check(self, request) ==
    IF self.client = None THEN PyBool(FALSE)
    ELSE IF IsExc(request) THEN PyBool(FALSE)
    ELSE PyBool(request.status_code \in {200, 401})

\* lines 125-129: the provider and what connect ends in, given what
\* 'await self.health_check()' ended in
connect_after(self, health) ==
    IF IsExc(health)
    THEN [self |-> disconnect(self), ret |-> Exc("ConnectionError")]
    ELSE [self |-> self, ret |-> None]

\* lines 98-129: connect()
connect(self, request) ==
    connect_after(with_client(self), health_check(with_client(self), request))

\* lines 70-76
RESOURCE_ENDPOINTS ==
    {"repos", "routing_policies", "normalization_policies", "enrichment_policies",
     "processing_policies"}

\* lines 166-202: get_resources(resource_type), the request ending in request
get_resources(self, resource_type, request) ==
    IF self.client = None THEN Exc("RuntimeError")
    ELSE IF resource_type \notin RESOURCE_ENDPOINTS THEN Exc("ValueError")
    ELSE IF IsExc(request) THEN Exc("ProviderError")
    ELSE IF request.status_code = 401 THEN Exc("AuthenticationError")
    ELSE IF request.status_code >= 400 THEN Exc("ProviderError")
    ELSE PyList(<<>>)

InitProvider ==
    /\ mode = "provider"
    /\ heap = <<>>
    /\ cache = <<>>
    /\ peer = <<>>
    /\ disk = {}
    /\ \E config \in Configs : instance = DirectorProvider(config)
    /\ Idle
    /\ args = NoValue
    /\ ret = NoValue

Request(fn, request) == [fn |-> fn, request |-> request]
Called(fn, request, result) == [fn |-> fn, request |-> request, ret |-> result]

\* what a call ends in: the value returned, or the exception raised
Ended(fn, request, result) ==
    /\ args' = Request(fn, request)
    /\ ret' = result
    /\ pc' = IF IsExc(result) THEN "raised" ELSE "returned"
    /\ log' = Append(log, Called(fn, request, result))

\* lines 98-129: await provider.connect()
Connect ==
    /\ mode = "provider" /\ Len(log) < MaxCalls
    /\ \E request \in Requests :
          /\ instance' = connect(instance, request).self
          /\ Ended("connect", request, connect(instance, request).ret)
    /\ UNCHANGED <<mode, heap, cache, peer, disk, current, seen, depth, chain, variables,
                   merged, resolved, err>>

\* lines 131-135: await provider.disconnect()
Disconnect ==
    /\ mode = "provider" /\ Len(log) < MaxCalls
    /\ instance' = disconnect(instance)
    /\ Ended("disconnect", NoValue, None)
    /\ UNCHANGED <<mode, heap, cache, peer, disk, current, seen, depth, chain, variables,
                   merged, resolved, err>>

\* lines 345-356: await provider.health_check()
HealthCheck ==
    /\ mode = "provider" /\ Len(log) < MaxCalls
    /\ \E request \in Requests :
          Ended("health_check", request, health_check(instance, request))
    /\ UNCHANGED <<mode, heap, cache, peer, disk, instance, current, seen, depth, chain,
                   variables, merged, resolved, err>>

\* lines 166-202: await provider.get_resources(resource_type)
GetResources ==
    /\ mode = "provider" /\ Len(log) < MaxCalls
    /\ \E request \in Requests : \E resource_type \in {"repos", "devices"} :
          Ended("get_resources", request, get_resources(instance, resource_type, request))
    /\ UNCHANGED <<mode, heap, cache, peer, disk, instance, current, seen, depth, chain,
                   variables, merged, resolved, err>>

NextProvider ==
    \/ Connect
    \/ Disconnect
    \/ HealthCheck
    \/ GetResources

SpecProvider == InitProvider /\ [][NextProvider]_vars

ProviderCalled(fn) == mode = "provider" /\ pc # "idle" /\ args.fn = fn

\* C26: connect raises ConnectionError and leaves the provider without client
\* whenever the request of its health check fails to reach the Director, and a
\* connect that returns with a client in place had its health check answered;
\* without client, get_resources raises the 'not connected' RuntimeError
C26_ConnectFailsWhenUnreachable ==
    /\ ProviderCalled("connect") =>
          /\ IsExc(args.request) => ret = Exc("ConnectionError") /\ instance.client = None
          /\ (ret = None /\ instance.client # None) => ~IsExc(args.request)
    /\ (ProviderCalled("get_resources") /\ instance.client = None) =>
          ret = Exc("RuntimeError")

====
